---- MODULE Spec2Model ----
(***************************************************************************)
(* Adaptive-Learning-App: the Bayesian ability estimator of src/algo.py    *)
(* (ActiveInferenceLearner) and the callers that drive it.                 *)
(*                                                                         *)
(* numpy's float64 is modelled by a binary floating-point format with a    *)
(* 14-bit significand: a number is a record [m, e] standing for m * 2^e,    *)
(* with 2^13 <= |m| < 2^14 or m = 0.  Every operation rounds its exact     *)
(* result to nearest (ties away from zero), so sums need not be exact and  *)
(* a posterior need not sum to exactly one.  A result below the least      *)
(* positive float underflows to zero, as a float64 result below 2^-1074    *)
(* does; there is no overflow, since no value of the model is large.       *)
(* Products of two significands stay below 2^28 and fit TLC's integers.    *)
(***************************************************************************)
EXTENDS Integers, Sequences, FiniteSets, TLC

----------------------------------------------------------------------------
(* Floating point                                                          *)

TwoP == 2^14
HalfP == 2^13

Zero == [m |-> 0, e |-> 0]
NaN == [m |-> 0, e |-> 1]

IsNaN(x) == x = NaN

Abs(n) == IF n < 0 THEN 0 - n ELSE n
Sgn(n) == IF n < 0 THEN 0 - 1 ELSE 1

\* The number of binary digits of n >= 0.
RECURSIVE BitLen(_)
BitLen(n) ==
  IF n < 2 THEN n
  ELSE IF n < 256 THEN 1 + BitLen(n \div 2)
  ELSE 8 + BitLen(n \div 256)

\* The exponent of the least positive float, 2^13 * 2^MinExponent = 2^-40.
MinExponent == 0 - 53

\* Underflow: a nonzero result below the least positive float is zero.
Flush(x) == IF x.e < MinExponent THEN Zero ELSE x

\* The float of sign sg nearest to a * 2^e, for a of 14 + k digits, k > 0.
Pack(sg, a, k, e) ==
  IF (a + 2^(k - 1)) \div 2^k = TwoP
  THEN Flush([m |-> sg * HalfP, e |-> e + k + 1])
  ELSE Flush([m |-> sg * ((a + 2^(k - 1)) \div 2^k), e |-> e + k])

\* The float nearest to a * 2^e, for a of 14 + k digits.
Scale(sg, a, k, e) ==
  IF k <= 0 THEN Flush([m |-> sg * a * 2^(0 - k), e |-> e + k])
  ELSE Pack(sg, a, k, e)

\* The float nearest to the integer m times 2^e.
Norm(m, e) ==
  IF m = 0 THEN Zero ELSE Scale(Sgn(m), Abs(m), BitLen(Abs(m)) - 14, e)

FromInt(n) == Norm(n, 0)

FNeg(a) == IF IsNaN(a) THEN NaN ELSE [m |-> 0 - a.m, e |-> a.e]

\* hi + lo for floats with hi.e - lo.e = d >= 0, neither zero; a lo of
\* less than a quarter of hi's last digit is absorbed.
AddAligned(hi, lo, d) ==
  IF d > 16 THEN hi ELSE Norm(hi.m * 2^d + lo.m, lo.e)

FAdd(a, b) ==
  IF IsNaN(a) \/ IsNaN(b) THEN NaN
  ELSE IF a.m = 0 THEN b
  ELSE IF b.m = 0 THEN a
  ELSE IF a.e >= b.e THEN AddAligned(a, b, a.e - b.e)
  ELSE AddAligned(b, a, b.e - a.e)

FSub(a, b) == FAdd(a, FNeg(b))

\* The product p of two significands has 27 or 28 digits.
MulPack(sg, p, e) == Pack(sg, p, IF p >= 134217728 THEN 14 ELSE 13, e)

FMul(a, b) ==
  IF IsNaN(a) \/ IsNaN(b) THEN NaN
  ELSE IF a.m = 0 \/ b.m = 0 THEN Zero
  ELSE MulPack(Sgn(a.m) * Sgn(b.m), Abs(a.m) * Abs(b.m), a.e + b.e)

\* The quotient q of two significands, times 2^16, has 16 or 17 digits.
DivPack(sg, q, e) == Pack(sg, q, IF q >= 65536 THEN 3 ELSE 2, e)

\* 0/0 is NaN, as in numpy; x/0 for x # 0 does not occur.
FDiv(a, b) ==
  IF IsNaN(a) \/ IsNaN(b) THEN NaN
  ELSE IF b.m = 0 THEN CASE a.m = 0 -> NaN
  ELSE IF a.m = 0 THEN Zero
  ELSE DivPack(Sgn(a.m) * Sgn(b.m), (Abs(a.m) * 65536) \div Abs(b.m),
               a.e - b.e - 16)

\* Comparisons are false on NaN.
FLt(a, b) == ~IsNaN(a) /\ ~IsNaN(b) /\ FSub(a, b).m < 0
FLe(a, b) == ~IsNaN(a) /\ ~IsNaN(b) /\ FSub(a, b).m <= 0

\* The float nearest to n/d, for a decimal literal of the source.
Frac(n, d) == FDiv(FromInt(n), FromInt(d))

\* 1, 2, ln 2, 1/2, 1/3, 1/5, 1/6, 1/7, 1/24 and 1/120, rounded.
One == [m |-> 8192, e |-> 0 - 13]
Two == [m |-> 8192, e |-> 0 - 12]
Ln2 == [m |-> 11356, e |-> 0 - 14]
Half == [m |-> 8192, e |-> 0 - 14]
Third == [m |-> 10923, e |-> 0 - 15]
Fifth == [m |-> 13107, e |-> 0 - 16]
Sixth == [m |-> 10923, e |-> 0 - 16]
Seventh == [m |-> 9362, e |-> 0 - 16]
OneOver24 == [m |-> 10923, e |-> 0 - 18]
OneOver120 == [m |-> 8738, e |-> 0 - 20]

\* The integer nearest to a float of small magnitude.
RoundToInt(a) ==
  IF a.e >= 0 THEN a.m * 2^a.e
  ELSE IF a.e < 0 - 15 THEN 0
  ELSE Sgn(a.m) * ((Abs(a.m) + 2^((0 - a.e) - 1)) \div 2^(0 - a.e))

\* c + r*p, a step of Horner's rule.
Horner(c, r, p) == FAdd(c, FMul(r, p))

TimesPow2(a, n) ==
  IF a.m = 0 THEN a ELSE Flush([m |-> a.m, e |-> a.e + n])

\* exp(r) * 2^n for |r| <= ln2/2: the Taylor polynomial of degree 5.
ExpPoly(r, n) ==
  TimesPow2(Horner(One, r, Horner(One, r, Horner(Half, r,
              Horner(Sixth, r, Horner(OneOver24, r, OneOver120))))), n)

ExpReduced(x, n) == ExpPoly(FSub(x, FMul(FromInt(n), Ln2)), n)

\* np.exp: x = n*ln2 + r with |r| <= ln2/2, and exp(x) = 2^n * exp(r).
FExp(x) ==
  IF IsNaN(x) THEN NaN ELSE ExpReduced(x, RoundToInt(FDiv(x, Ln2)))

\* 2*atanh(s) by its series to s^7, s2 = s*s.
AtanhSeries(s, s2) ==
  FMul(Two, FMul(s, Horner(One, s2, Horner(Third, s2,
                                    Horner(Fifth, s2, Seventh)))))

Atanh2(s) == AtanhSeries(s, FMul(s, s))

\* log(u * 2^k) = k*ln2 + 2*atanh((u-1)/(u+1)).
LogReduced(u, k) ==
  FAdd(FMul(FromInt(k), Ln2), Atanh2(FDiv(FSub(u, One), FAdd(u, One))))

\* np.log for x > 0: x = u * 2^k with u in [sqrt(1/2), sqrt(2)).
FLog(x) ==
  IF IsNaN(x) THEN NaN
  ELSE IF x.m > 11585
       THEN LogReduced([m |-> x.m, e |-> 0 - 14], x.e + 14)
       ELSE LogReduced([m |-> x.m, e |-> 0 - 13], x.e + 13)

----------------------------------------------------------------------------
(* Bounds and inputs                                                       *)

\* grid_size given to the constructor (the source's default is 20).
GridSize == 3
\* update_belief calls in one behaviour.
MaxUpdates == 2

\* update_belief calls in one behaviour that repeats one observation.
MaxRepeats == 12

\* Question difficulties in [0,1], in tenths.
Tenths(n) == Frac(n, 10)
Difficulties == {Tenths(2), Tenths(5), Tenths(8)}
\* Difficulties no question may have: out of [0,1], and not a number.
Malformed == {Frac(3, 2), FNeg(Frac(1, 2)), NaN}
Outcomes == {0, 1}
\* The difficulties the read-only operations are called with: those of the
\* updates and the two ends of [0,1].
QueryDifficulties == Difficulties \cup {Tenths(0), Tenths(10)}

----------------------------------------------------------------------------
(* numpy vectors: sequences of floats                                      *)

RECURSIVE SumUpTo(_, _)
SumUpTo(v, i) == IF i = 0 THEN Zero ELSE FAdd(SumUpTo(v, i - 1), v[i])

\* np.sum: the elements added left to right.
NpSum(v) == SumUpTo(v, Len(v))

\* An array holds its elements: the function f on 1..n as a sequence of
\* evaluated floats.
Array(f, n) == SubSeq(f, 1, n)

VMul(v, w) == Array([i \in 1..Len(v) |-> FMul(v[i], w[i])], Len(v))
VDivS(v, s) == Array([i \in 1..Len(v) |-> FDiv(v[i], s)], Len(v))
VOneMinus(v) == Array([i \in 1..Len(v) |-> FSub(One, v[i])], Len(v))

\* np.linspace(start, stop, num) for num >= 0.
linspace(start, stop, num) ==
  LET step == FDiv(FSub(stop, start), FromInt(num - 1))
  IN Array([i \in 1..num |->
              IF i = num /\ num > 1 THEN stop
              ELSE IF i = 1 THEN start
              ELSE FAdd(FMul(FromInt(i - 1), step), start)], num)

\* A variant of entr without the minus sign: x*log(x).
entr_unsigned(x) ==
  IF IsNaN(x) THEN NaN
  ELSE IF x.m = 0 THEN Zero
  ELSE FMul(x, FLog(x))

\* scipy.special.entr: -x*log(x), 0 at 0.
entr(x) ==
  IF IsNaN(x) THEN NaN
  ELSE IF x.m = 0 THEN Zero
  ELSE FNeg(FMul(x, FLog(x)))

\* scipy.stats.entropy(pk): pk is normalized, then sum(entr(pk)).
entropy(pk) ==
  LET p == VDivS(pk, NpSum(pk))
  IN NpSum(Array([i \in 1..Len(p) |-> entr(p[i])], Len(p)))

----------------------------------------------------------------------------
(* ActiveInferenceLearner                                                  *)

guess_factor == Frac(25, 100)
slip_factor == Frac(5, 100)

\* __init__: the fields of a new learner.
NewLearner(grid_size) ==
  [ability_grid |-> linspace(Frac(1, 100), Frac(99, 100), grid_size),
   belief |-> Array([i \in 1..grid_size |-> FDiv(One, FromInt(grid_size))],
                    grid_size)]

\* ActiveInferenceLearner(grid_size): np.linspace raises ValueError for a
\* negative number of samples; zero samples give empty arrays.
construct(grid_size) ==
  IF grid_size < 0 THEN [exc |-> "ValueError"]
  ELSE [exc |-> "none", learner |-> NewLearner(grid_size)]

\* A variant of predict_success_prob without the guessing and slipping
\* factors: final_prob = base_prob.
predict_success_prob_plain(difficulty, ability) ==
  FDiv(One, FAdd(One, FExp(FMul(FromInt(0 - 10),
                                FSub(ability, difficulty)))))

\* A variant of predict_success_prob with the sign of the exponent
\* lost: np.exp(10 * (ability - difficulty)).
predict_success_prob_falling(difficulty, ability) ==
  LET base_prob ==
        FDiv(One, FAdd(One, FExp(FMul(FromInt(10),
                                      FSub(ability, difficulty)))))
  IN FAdd(guess_factor,
          FMul(FSub(FSub(One, guess_factor), slip_factor), base_prob))

predict_success_prob(difficulty, ability) ==
  LET base_prob ==
        FDiv(One, FAdd(One, FExp(FMul(FromInt(0 - 10),
                                      FSub(ability, difficulty)))))
  IN FAdd(guess_factor,
          FMul(FSub(FSub(One, guess_factor), slip_factor), base_prob))

\* predict_success_prob(difficulty, self.ability_grid), elementwise.
likelihood_grid(grid, difficulty) ==
  Array([i \in 1..Len(grid) |-> predict_success_prob(difficulty, grid[i])],
        Len(grid))

\* A variant of get_estimated_ability that leaves the grid out of the
\* product: np.sum(self.belief).
sum_of_belief(grid, belief) == NpSum(belief)

get_estimated_ability(grid, belief) == NpSum(VMul(grid, belief))

get_current_entropy(belief) == entropy(belief)

\* A variant of outcome_likelihood that leaves out the branch
\* if is_correct == 0: likelihood = 1 - likelihood.
likelihood_of_correct(grid, difficulty, is_correct) ==
  likelihood_grid(grid, difficulty)

\* The likelihood of the observed outcome at every grid point.
outcome_likelihood(grid, difficulty, is_correct) ==
  IF is_correct = 0 THEN VOneMinus(likelihood_grid(grid, difficulty))
  ELSE likelihood_grid(grid, difficulty)

\* A variant of normalized that leaves out the division by the sum.
unnormalized(unnormalized_posterior) == unnormalized_posterior

\* unnormalized_posterior / np.sum(unnormalized_posterior)
normalized(unnormalized_posterior) ==
  VDivS(unnormalized_posterior, NpSum(unnormalized_posterior))

\* The learner's belief after update_belief, and the value returned.
updated(grid, posterior) ==
  [belief |-> posterior,
   ret |-> get_estimated_ability(grid, posterior),
   exc |-> "none"]

\* A variant of update_belief that leaves the prior out of the product:
\* unnormalized_posterior = likelihood.
update_belief_forgetful(grid, belief, difficulty, is_correct) ==
  updated(grid, normalized(outcome_likelihood(grid, difficulty, is_correct)))

\* update_belief: the new belief and the returned estimate.
update_belief(grid, belief, difficulty, is_correct) ==
  updated(grid, normalized(VMul(belief,
            outcome_likelihood(grid, difficulty, is_correct))))

\* (p_correct * h_correct) + (p_wrong * h_wrong), p_wrong = 1.0 - p_correct
expected_entropy(p_correct, h_correct, h_wrong) ==
  FAdd(FMul(p_correct, h_correct), FMul(FSub(One, p_correct), h_wrong))

\* A variant of eig_of with the operands of the last subtraction
\* exchanged: expected_posterior_entropy - current_entropy.
eig_of_reversed(belief, lik) ==
  FSub(expected_entropy(NpSum(VMul(lik, belief)),
                        entropy(normalized(VMul(belief, lik))),
                        entropy(normalized(VMul(belief, VOneMinus(lik))))),
       entropy(belief))

\* calculate_eig, from the likelihood grid on: post_correct and
\* post_wrong are new arrays, normalized in place.
eig_of(belief, lik) ==
  FSub(entropy(belief),
       expected_entropy(NpSum(VMul(lik, belief)),
                        entropy(normalized(VMul(belief, lik))),
                        entropy(normalized(VMul(belief, VOneMinus(lik))))))

\* A variant of calculate_eig whose post_correct is self.belief itself
\* and not a new array: the in-place division then acts on the belief.
calculate_eig_in_place(grid, belief, difficulty) ==
  [ret |-> eig_of(belief, likelihood_grid(grid, difficulty)),
   belief |-> normalized(VMul(belief, likelihood_grid(grid, difficulty))),
   exc |-> "none"]

\* calculate_eig: the value returned and the learner's belief after the
\* call; the in-place divisions act on the new arrays only, and
\* self.belief is left as it was.
calculate_eig(grid, belief, difficulty) ==
  [ret |-> eig_of(belief, likelihood_grid(grid, difficulty)),
   belief |-> belief,
   exc |-> "none"]

----------------------------------------------------------------------------
(* pandas frames: the columns a frame has, and its rows in order           *)

Question(id, tenths) == [id |-> id, difficulty |-> Tenths(tenths)]

QuestionColumns == {"id", "difficulty"}

\* pd.DataFrame(): what load_data returns when questions.csv is missing.
NoFrame == [columns |-> {}, rows |-> <<>>]

Frame(rows) == [columns |-> QuestionColumns, rows |-> rows]

\* The question pools a caller passes: distinct difficulties, a repeated
\* difficulty (equal EIG), a pool without rows, and load_data's empty frame.
Pools ==
  {Frame(<<Question(1, 2), Question(2, 5), Question(3, 8)>>),
   Frame(<<Question(1, 5), Question(2, 8), Question(3, 5)>>),
   Frame(<<>>),
   NoFrame}

\* The orders in which a sort may leave rows of equal key: position i of
\* the sorted array has rank t[i] among its equals.  <<1, 2, 3>> is a
\* stable sort; pandas' default kind, quicksort, promises none of them.
TieOrders == {<<1, 2, 3>>, <<3, 2, 1>>}

\* Row i comes before row j in sort_values('eig', ascending=False):
\* NaN keys last in their original order, larger keys first, and equal
\* keys as the build's sort leaves them.
Before(eig, tie, i, j) ==
  IF IsNaN(eig[i]) THEN IsNaN(eig[j]) /\ i < j
  ELSE IF IsNaN(eig[j]) THEN TRUE
  ELSE IF eig[i] = eig[j] THEN tie[i] < tie[j]
  ELSE FLt(eig[j], eig[i])

\* Position (in the frame sorted) of the row .iloc[0] returns.
Iloc0(eig, tie) ==
  CHOOSE i \in 1..Len(eig) : \A j \in 1..Len(eig) : j # i => Before(eig, tie, i, j)

None == [kind |-> "None"]

\* available_questions with its 'eig' column, sorted: the row .iloc[0].
best_question(available_questions, eig, best) ==
  [kind |-> "row",
   id |-> available_questions[best].id,
   difficulty |-> available_questions[best].difficulty,
   eig |-> eig[best]]

\* available_questions['difficulty'].apply(self.calculate_eig)
eig_column(grid, belief, available_questions) ==
  Array([i \in 1..Len(available_questions) |->
           calculate_eig(grid, belief, available_questions[i].difficulty).ret],
        Len(available_questions))

sorted_first(available_questions, eig, tie) ==
  best_question(available_questions, eig, Iloc0(eig, tie))

\* select_next_question once the answered rows are filtered out.
select_available(grid, belief, available_questions, tie) ==
  IF available_questions = <<>> THEN None
  ELSE sorted_first(available_questions,
                    eig_column(grid, belief, available_questions), tie)

\* A variant of unanswered_rows that leaves out the filter.
all_rows(rows, history_ids) == rows

\* question_pool_df[~question_pool_df['id'].isin(history_ids)]
unanswered_rows(rows, history_ids) ==
  LET Unanswered(q) == \A k \in 1..Len(history_ids) : history_ids[k] # q.id
  IN SelectSeq(rows, Unanswered)

\* select_next_question: the value returned, or the exception raised,
\* and the caller's frame, list and the learner's belief after the call.
select_next_question(grid, belief, question_pool_df, history_ids, tie) ==
  IF "id" \notin question_pool_df.columns
  THEN [exc |-> "KeyError", ret |-> None, belief |-> belief,
        question_pool_df |-> question_pool_df, history_ids |-> history_ids]
  ELSE [exc |-> "none",
        ret |-> select_available(grid, belief,
                  unanswered_rows(question_pool_df.rows, history_ids), tie),
        belief |-> belief,
        question_pool_df |-> question_pool_df,
        history_ids |-> history_ids]

----------------------------------------------------------------------------
(* The caller's log of observations and its replay (app.py)                *)

\* A float as csv.writer writes it, str(difficulty): the shortest decimal
\* that reads back as the same float, here a number of tenths, or "nan".
DecimalTenths == (0 - 10)..20
FloatStr(x) ==
  IF IsNaN(x) THEN [nan |-> TRUE, tenths |-> 0]
  ELSE [nan |-> FALSE, tenths |-> CHOOSE n \in DecimalTenths : Tenths(n) = x]

\* float(row.get("difficulty", 0.5)) on a cell of the log.
ParseFloat(s) == IF s.nan THEN NaN ELSE Tenths(s.tenths)

\* log_interaction: the row written for one answered question.
LogRow(difficulty, correct) ==
  [difficulty |-> FloatStr(difficulty), correct |-> correct]

\* A variant of replay_correct_val that takes every non-empty cell for a
\* correct answer (1 if correct_raw else 0 on the cell's text).
replay_correct_truthy(correct_raw) == 1

\* main_app, restoring: correct_val = 1 if int(correct_raw) != 0 else 0.
replay_correct_val(correct_raw) == IF correct_raw # 0 THEN 1 ELSE 0

\* main_app, restoring: one update_belief per row of the user's log, in
\* the log's order, on the learner passed; a row that raises is skipped.
RECURSIVE replay_logs(_, _, _)
replay_logs(learner, user_logs, n) ==
  IF n = 0 THEN learner
  ELSE LET before == replay_logs(learner, user_logs, n - 1)
           row == user_logs[n]
           r == update_belief(before.ability_grid, before.belief,
                              ParseFloat(row.difficulty),
                              replay_correct_val(row.correct))
       IN IF r.exc # "none" THEN before
          ELSE [ability_grid |-> before.ability_grid, belief |-> r.belief]

\* main_app, for a user id not in user_data: a new learner, and the
\* user's log replayed on it.
restore_learner(grid_size, user_logs) ==
  replay_logs(NewLearner(grid_size), user_logs, Len(user_logs))

----------------------------------------------------------------------------
(* UserManager (src/user_manager.py): users.json and the profile files     *)

\* A str is the sequence of its characters; str.strip() drops the blanks
\* at both ends.
RECURSIVE lstrip(_)
lstrip(s) == IF s # <<>> /\ Head(s) = " " THEN lstrip(Tail(s)) ELSE s

RECURSIVE rstrip(_)
rstrip(s) ==
  IF s # <<>> /\ s[Len(s)] = " " THEN rstrip(SubSeq(s, 1, Len(s) - 1))
  ELSE s

strip(s) == rstrip(lstrip(s))

\* The components of a path string, which "/" separates.
RECURSIVE PathParts(_, _)
PathParts(s, part) ==
  IF s = <<>> THEN <<part>>
  ELSE IF Head(s) = "/" THEN <<part>> \o PathParts(Tail(s), <<>>)
  ELSE PathParts(Tail(s), Append(part, Head(s)))

\* The directories under data_dir: data_dir itself and profiles/.
ProfilesName == <<"p", "r", "o", "f", "i", "l", "e", "s">>
UsersJsonName == <<"u", "s", "e", "r", "s", ".", "j", "s", "o", "n">>
DotJson == <<".", "j", "s", "o", "n">>
Directories == {<<>>, <<ProfilesName>>}

\* The file that the components name, from the directory path on: ".."
\* leaves an existing directory for its parent.
RECURSIVE Resolved(_, _)
Resolved(parts, path) ==
  IF parts = <<>> THEN path
  ELSE IF Head(parts) \in {<<>>, <<".">>} THEN Resolved(Tail(parts), path)
  ELSE IF Head(parts) = <<".", ".">> /\ path # <<>> /\ path \in Directories
  THEN Resolved(Tail(parts), SubSeq(path, 1, Len(path) - 1))
  ELSE Resolved(Tail(parts), Append(path, Head(parts)))

\* self.users_file and self.user_profiles_dir, relative to data_dir.
users_file == <<UsersJsonName>>
user_profiles_dir == <<ProfilesName>>

\* self.user_profiles_dir / f"{username}.json"
profile_file(username) ==
  Resolved(PathParts(username \o DotJson, <<>>), user_profiles_dir)

\* open(path, 'w') succeeds in an existing directory.
Writable(path) ==
  /\ path # <<>>
  /\ SubSeq(path, 1, Len(path) - 1) \in Directories
  /\ path \notin Directories

\* A dict, and d[k] = v.
EmptyDict == [k \in {} |-> None]
Put(d, k, v) == [j \in DOMAIN d \cup {k} |-> IF j = k THEN v ELSE d[j]]

\* A JSON object of a file: its entries under usernames and its entries
\* under field names (no username of the model spells a field name).
\* json.dump and json.load keep the strings, integers, nulls, lists and
\* objects these files hold as they are.
JsonObject(entries, fields) == [entries |-> entries, fields |-> fields]

\* datetime.now().strftime("%Y-%m-%d %H:%M:%S")
Now == [strftime |-> "%Y-%m-%d %H:%M:%S"]

Message(text) == [message |-> text]

\* The files after UserManager.__init__: users.json holding {}.
init_users_db == Put(EmptyDict, users_file, JsonObject(EmptyDict, EmptyDict))

\* _load_users: {} when the file is missing.
_load_users(fs) ==
  IF users_file \in DOMAIN fs THEN fs[users_file]
  ELSE JsonObject(EmptyDict, EmptyDict)

_save_users(fs, users) == Put(fs, users_file, users)

\* hashlib.sha256(password.encode()).hexdigest(): the digest of a
\* password, different for different passwords.
_hash_password(password) == [sha256 |-> password]

\* The profile _create_user_profile writes.
profile_data(username) ==
  [username |-> username,
   learning_stats |-> [total_questions |-> 0, correct_answers |-> 0,
                       wrong_answers |-> 0, current_streak |-> 0,
                       best_streak |-> 0, total_study_time |-> 0,
                       last_study_date |-> None],
   learning_history |-> <<>>,
   wrong_questions |-> <<>>,
   wrong_questions_detail |-> <<>>,
   favorite_questions |-> <<>>,
   learning_goals |-> [target_ability |-> Tenths(8),
                       target_questions_per_day |-> 10,
                       target_concepts |-> <<>>],
   preferences |-> [theme |-> "light", notifications |-> TRUE]]

\* _create_user_profile: the profile file written, or the error of open.
_create_user_profile(fs, username) ==
  IF Writable(profile_file(username))
  THEN [files |-> Put(fs, profile_file(username),
                      JsonObject(EmptyDict, profile_data(username))),
        exc |-> "none"]
  ELSE [files |-> fs, exc |-> "FileNotFoundError"]

\* The user record register_user stores.
user_record(username, password) ==
  [username |-> username,
   password_hash |-> _hash_password(password),
   email |-> "",
   nickname |-> username,
   role |-> "Student",
   created_at |-> Now,
   last_login |-> None,
   login_count |-> 0]

Refused(fs, text) ==
  [files |-> fs, ret |-> <<FALSE, Message(text)>>, exc |-> "none"]

\* register_user after _save_users: the profile is created, and the call
\* returns unless that raised.
registered(created) ==
  [files |-> created.files,
   ret |-> IF created.exc = "none"
           THEN <<TRUE, Message("User {username} registered successfully!")>>
           ELSE None,
   exc |-> created.exc]

\* users[username] = user_data
with_user(users, username, user_data) ==
  JsonObject(Put(users.entries, username, user_data), users.fields)

register_user(fs, username, password) ==
  IF username \in DOMAIN _load_users(fs).entries
  THEN Refused(fs, "Username already exists. Please choose another.")
  ELSE IF username = <<>> \/ Len(strip(username)) < 3
  THEN Refused(fs, "Username must be at least 3 characters.")
  ELSE IF password = "" \/ Len(password) < 6
  THEN Refused(fs, "Password must be at least 6 characters.")
  ELSE registered(_create_user_profile(
         _save_users(fs, with_user(_load_users(fs), username,
                                   user_record(username, password))),
         username))

\* The record of a user who has logged in once more.
logged_in(user_data) ==
  [user_data EXCEPT !.last_login = Now, !.login_count = @ + 1]

\* A variant of authenticate_user that leaves out the comparison of the
\* password hashes.
authenticate_user_unchecked(fs, username, password) ==
  IF username \notin DOMAIN _load_users(fs).entries
  THEN Refused(fs, "Invalid username or password")
  ELSE [files |-> _save_users(fs, with_user(_load_users(fs), username,
                      logged_in(_load_users(fs).entries[username]))),
        ret |-> <<TRUE, Message("Login successful")>>,
        exc |-> "none"]

authenticate_user(fs, username, password) ==
  IF username \notin DOMAIN _load_users(fs).entries
  THEN Refused(fs, "Invalid username or password")
  ELSE IF _load_users(fs).entries[username].password_hash
            # _hash_password(password)
  THEN Refused(fs, "Invalid username or password")
  ELSE [files |-> _save_users(fs, with_user(_load_users(fs), username,
                      logged_in(_load_users(fs).entries[username]))),
        ret |-> <<TRUE, Message("Login successful")>>,
        exc |-> "none"]

\* get_user_profile's repair of a loaded object: a missing
\* wrong_questions_detail is added (the repairs of fields of a wrong type
\* find nothing to do in a file that this class wrote).
repaired(profile) ==
  IF "wrong_questions_detail" \in DOMAIN profile.fields THEN profile
  ELSE JsonObject(profile.entries,
                  Put(profile.fields, "wrong_questions_detail", <<>>))

\* save_user_profile: the file written; an error of open is caught.
save_user_profile(fs, username, profile) ==
  IF Writable(profile_file(username))
  THEN Put(fs, profile_file(username), profile)
  ELSE fs

\* get_user_profile on an existing file: loaded, repaired, saved back and
\* returned.
loaded_profile(fs, username) ==
  [files |-> save_user_profile(fs, username,
                               repaired(fs[profile_file(username)])),
   ret |-> repaired(fs[profile_file(username)]),
   exc |-> "none"]

\* get_user_profile: a missing profile file is created first, outside
\* the try block.
get_user_profile(fs, username) ==
  IF profile_file(username) \in DOMAIN fs THEN loaded_profile(fs, username)
  ELSE IF _create_user_profile(fs, username).exc = "none"
  THEN loaded_profile(_create_user_profile(fs, username).files, username)
  ELSE [files |-> fs, ret |-> None,
        exc |-> _create_user_profile(fs, username).exc]

\* user_exists
user_exists(fs, username) == username \in DOMAIN _load_users(fs).entries

\* A dict, a list or a str is falsy when it is empty, None always.
Falsy(profile) ==
  \/ profile = None
  \/ (DOMAIN profile.entries = {} /\ DOMAIN profile.fields = {})

\* The entry of learning_history for one answered question.
history_entry(question_id, is_correct) ==
  [question_id |-> question_id, is_correct |-> is_correct,
   timestamp |-> Now, study_time_minutes |-> 0]

Max(a, b) == IF a >= b THEN a ELSE b

Contains(list, x) == \E k \in 1..Len(list) : list[k] = x

\* answered_stats with the streak kept over a wrong answer.
answered_stats_streak_kept(stats, is_correct) ==
  IF is_correct
  THEN [stats EXCEPT !.total_questions = @ + 1,
                     !.correct_answers = @ + 1,
                     !.current_streak = @ + 1,
                     !.best_streak = Max(@, stats.current_streak + 1),
                     !.last_study_date = Now]
  ELSE [stats EXCEPT !.total_questions = @ + 1,
                     !.wrong_answers = @ + 1,
                     !.last_study_date = Now]

\* update_learning_stats: the counters of learning_stats after an answer.
answered_stats(stats, is_correct) ==
  IF is_correct
  THEN [stats EXCEPT !.total_questions = @ + 1,
                     !.correct_answers = @ + 1,
                     !.current_streak = @ + 1,
                     !.best_streak = Max(@, stats.current_streak + 1),
                     !.last_study_date = Now]
  ELSE [stats EXCEPT !.total_questions = @ + 1,
                     !.wrong_answers = @ + 1,
                     !.current_streak = 0,
                     !.last_study_date = Now]

\* update_learning_stats: the fields of the profile after an answer.
answered_profile(fields, question_id, is_correct) ==
  [fields EXCEPT
     !.learning_stats = answered_stats(@, is_correct),
     !.learning_history = Append(@, history_entry(question_id, is_correct)),
     !.wrong_questions =
        IF ~is_correct /\ ~Contains(@, question_id)
        THEN Append(@, question_id) ELSE @]

\* update_learning_stats once get_user_profile has returned g.
stats_updated(g, username, question_id, is_correct) ==
  IF g.exc # "none" THEN [files |-> g.files, exc |-> g.exc]
  ELSE IF Falsy(g.ret) THEN [files |-> g.files, exc |-> "none"]
  ELSE IF "learning_stats" \notin DOMAIN g.ret.fields
  THEN [files |-> g.files, exc |-> "KeyError"]
  ELSE [files |-> save_user_profile(g.files, username,
                    JsonObject(g.ret.entries,
                               answered_profile(g.ret.fields, question_id,
                                                is_correct))),
        exc |-> "none"]

update_learning_stats(fs, username, question_id, is_correct) ==
  stats_updated(get_user_profile(fs, username), username, question_id,
                is_correct)

----------------------------------------------------------------------------
(* WrongQuestionsManager.add_wrong_question (src/wrong_questions.py)       *)

\* The record of a question answered wrongly for the first time; the
\* texts of the question and of the answers are left out.
wrong_question(question_id, difficulty) ==
  [question_id |-> question_id,
   difficulty |-> FloatStr(difficulty),
   first_wrong_time |-> Now,
   last_wrong_time |-> Now,
   wrong_count |-> 1,
   mastered |-> FALSE,
   mastered_time |-> None,
   review_count |-> 0]

\* The position of the first record of question_id in the list, or 0.
existing(wrong_questions, question_id) ==
  IF \E k \in 1..Len(wrong_questions) :
       wrong_questions[k].question_id = question_id
  THEN CHOOSE k \in 1..Len(wrong_questions) :
         /\ wrong_questions[k].question_id = question_id
         /\ \A j \in 1..(k - 1) : wrong_questions[j].question_id # question_id
  ELSE 0

\* A variant of with_wrong_question that does not look for a record of
\* the question.
with_wrong_question_appended(wrong_questions, question_id, difficulty) ==
  Append(wrong_questions, wrong_question(question_id, difficulty))

\* wrong_questions_detail after one more wrong answer to question_id.
with_wrong_question(wrong_questions, question_id, difficulty) ==
  IF existing(wrong_questions, question_id) = 0
  THEN Append(wrong_questions, wrong_question(question_id, difficulty))
  ELSE [wrong_questions EXCEPT
          ![existing(wrong_questions, question_id)] =
             [@ EXCEPT !.wrong_count = @ + 1, !.last_wrong_time = Now]]

\* The fields of the profile after add_wrong_question.
with_wrong_answer(fields, question_id, difficulty) ==
  [fields EXCEPT
     !.wrong_questions_detail =
        with_wrong_question(@, question_id, difficulty),
     !.wrong_questions =
        IF Contains(@, question_id) THEN @ ELSE Append(@, question_id)]

\* add_wrong_question once get_user_profile has returned g.
wrong_question_added(g, username, question_id, difficulty) ==
  IF g.exc # "none" THEN [files |-> g.files, exc |-> g.exc]
  ELSE IF Falsy(g.ret) THEN [files |-> g.files, exc |-> "none"]
  ELSE IF "wrong_questions" \notin DOMAIN g.ret.fields
  THEN [files |-> g.files, exc |-> "KeyError"]
  ELSE [files |-> save_user_profile(g.files, username,
                    JsonObject(g.ret.entries,
                               with_wrong_answer(g.ret.fields, question_id,
                                                 difficulty))),
        exc |-> "none"]

add_wrong_question(fs, username, question_id, difficulty) ==
  wrong_question_added(get_user_profile(fs, username), username,
                       question_id, difficulty)

\* mark_as_mastered: the first record of the question is marked.
marked_mastered(wrong_questions, question_id) ==
  IF existing(wrong_questions, question_id) = 0 THEN wrong_questions
  ELSE [wrong_questions EXCEPT
          ![existing(wrong_questions, question_id)] =
             [@ EXCEPT !.mastered = TRUE, !.mastered_time = Now]]

\* increment_review_count: the first record of the question counts one
\* more review.
reviewed(wrong_questions, question_id) ==
  IF existing(wrong_questions, question_id) = 0 THEN wrong_questions
  ELSE [wrong_questions EXCEPT
          ![existing(wrong_questions, question_id)] =
             [@ EXCEPT !.review_count = @ + 1]]

\* remove_wrong_question: every record of the question is dropped.
without_question(wrong_questions, question_id) ==
  LET Other(q) == q.question_id # question_id
  IN SelectSeq(wrong_questions, Other)

\* list.remove(x): the list without the first x.
RECURSIVE list_remove(_, _)
list_remove(list, x) ==
  IF list = <<>> THEN list
  ELSE IF Head(list) = x THEN Tail(list)
  ELSE <<Head(list)>> \o list_remove(Tail(list), x)

\* The three methods once get_user_profile has returned g: the profile
\* with the new lists is saved.
notebook_saved(g, username, wrong_questions_detail, wrong_questions) ==
  IF g.exc # "none" THEN [files |-> g.files, exc |-> g.exc]
  ELSE IF Falsy(g.ret) THEN [files |-> g.files, exc |-> "none"]
  ELSE [files |-> save_user_profile(g.files, username,
                    JsonObject(g.ret.entries,
                      [g.ret.fields EXCEPT
                         !.wrong_questions_detail = wrong_questions_detail,
                         !.wrong_questions = wrong_questions])),
        exc |-> "none"]

\* profile.get("wrong_questions_detail", []) and profile["wrong_questions"]
detail_of(g) ==
  IF Falsy(g.ret) THEN <<>> ELSE g.ret.fields.wrong_questions_detail
ids_of(g) == IF Falsy(g.ret) THEN <<>> ELSE g.ret.fields.wrong_questions

mark_as_mastered(fs, username, question_id) ==
  LET g == get_user_profile(fs, username)
  IN notebook_saved(g, username, marked_mastered(detail_of(g), question_id),
                    ids_of(g))

increment_review_count(fs, username, question_id) ==
  LET g == get_user_profile(fs, username)
  IN notebook_saved(g, username, reviewed(detail_of(g), question_id),
                    ids_of(g))

remove_wrong_question(fs, username, question_id) ==
  LET g == get_user_profile(fs, username)
  IN notebook_saved(g, username, without_question(detail_of(g), question_id),
                    list_remove(ids_of(g), question_id))

----------------------------------------------------------------------------
(* main_app (src/app.py): the users of one browser session                 *)

\* df = load_data(): the question pool of the application.
df == Frame(<<Question(1, 5), Question(2, 8)>>)

LearningModes == {"Adaptive (AI)", "Linear (Control Group)"}

\* log_interaction: the row written for one answered question.
AppLogRow(user_id, q_id, difficulty, correct) ==
  [user_id |-> user_id, question_id |-> q_id,
   difficulty |-> FloatStr(difficulty), correct |-> correct]

\* get_user_logs: df[df['user_id'] == user_id]
get_user_logs(log, user_id) ==
  LET OfUser(row) == row.user_id = user_id IN SelectSeq(log, OfUser)

\* A reference to an object that no reference of objs refers to.
NewRef(objs) ==
  IF DOMAIN objs = {} THEN 1
  ELSE 1 + CHOOSE m \in DOMAIN objs : \A n \in DOMAIN objs : n <= m

\* A variant of learner_ref in which every entry refers to the learner
\* that was made first.
shared_learner_ref(objs) == IF 1 \in DOMAIN objs THEN 1 ELSE NewRef(objs)

\* "learner": ActiveInferenceLearner(): the reference to the new learner.
learner_ref(objs) == NewRef(objs)

\* The value of current_q_id: None, "FINISHED" or the id of a question.
Finished == [kind |-> "FINISHED"]
QuestionId(id) == [kind |-> "id", id |-> id]

\* The dict main_app makes for a user id that is not in user_data; the
\* fields of the hints are left out.
new_user_state(objs) ==
  [learner |-> learner_ref(objs),
   history |-> learner_ref(objs) + 1,
   score |-> 0, streak |-> 0,
   current_q_id |-> None, last_result |-> None, waiting_next |-> FALSE]

\* The objects with the object that ref refers to, made if it is new.
allocated(objs, ref, value) ==
  IF ref \in DOMAIN objs THEN objs ELSE Put(objs, ref, value)

\* The session once user_id has its entry in user_data.
entered(ud, objs, user_id, state) ==
  IF user_id \in DOMAIN ud
  THEN [user_data |-> ud, objects |-> objs, new |-> FALSE]
  ELSE [user_data |-> Put(ud, user_id, state),
        objects |-> allocated(allocated(objs, state.learner,
                                        NewLearner(GridSize)),
                              state.history, <<>>),
        new |-> TRUE]

\* The question ids of the rows in order, each once.
RECURSIVE answered_ids(_, _)
answered_ids(user_logs, n) ==
  IF n = 0 THEN <<>>
  ELSE IF Contains(answered_ids(user_logs, n - 1), user_logs[n].question_id)
  THEN answered_ids(user_logs, n - 1)
  ELSE Append(answered_ids(user_logs, n - 1), user_logs[n].question_id)

\* main_app, restoring a registered user's new entry from the log: the
\* rows are replayed on the learner, their ids become the history, and
\* score and streak are taken from the profile.
restored(e, user_id, user_profile, user_logs) ==
  IF ~e.new \/ Falsy(user_profile) \/ user_logs = <<>>
  THEN [user_data |-> e.user_data, objects |-> e.objects]
  ELSE [user_data |->
          [e.user_data EXCEPT
             ![user_id].score =
                user_profile.fields.learning_stats.correct_answers,
             ![user_id].streak =
                user_profile.fields.learning_stats.current_streak],
        objects |->
          [e.objects EXCEPT
             ![e.user_data[user_id].learner] =
                replay_logs(@, user_logs, Len(user_logs)),
             ![e.user_data[user_id].history] =
                answered_ids(user_logs, Len(user_logs))]]

\* Linear mode: the unanswered question of the smallest id.
RECURSIVE smallest_id(_, _)
smallest_id(rows, n) ==
  IF n = 1 THEN rows[1].id
  ELSE IF rows[n].id < smallest_id(rows, n - 1) THEN rows[n].id
  ELSE smallest_id(rows, n - 1)

linear_question(question_pool, history) ==
  IF unanswered_rows(question_pool.rows, history) = <<>> THEN Finished
  ELSE QuestionId(smallest_id(unanswered_rows(question_pool.rows, history),
                              Len(unanswered_rows(question_pool.rows,
                                                  history))))

\* Adaptive mode: the question select_next_question returns.
adaptive_question(next_q) ==
  IF next_q = None THEN Finished ELSE QuestionId(next_q.id)

\* df['id'] on a frame without that column raises KeyError, in Linear
\* mode in get_next_question and in Adaptive mode in the learner.
Raised(exc) == [kind |-> exc]

\* get_next_question on a pool: the value it gives current_q_id, or the
\* exception it raises.
next_question(question_pool, learner, history, learning_mode, tie) ==
  IF "id" \notin question_pool.columns THEN Raised("KeyError")
  ELSE IF learning_mode = "Linear (Control Group)"
  THEN linear_question(question_pool, history)
  ELSE adaptive_question(select_next_question(learner.ability_grid,
                           learner.belief, question_pool, history, tie).ret)

\* get_next_question; an exception leaves current_q_id as it was.
assigned(current_q_id, q_id) ==
  IF q_id.kind \in {"id", "FINISHED"} THEN q_id ELSE current_q_id

get_next_question(ud, objs, user_id, learning_mode, tie) ==
  [ud EXCEPT ![user_id].current_q_id =
     assigned(@, next_question(df, objs[ud[user_id].learner],
                               objs[ud[user_id].history],
                               learning_mode, tie))]

\* main_app after the entry of user_id is there: a question is chosen if
\* there is none.
with_question(r, user_id, learning_mode, tie) ==
  IF r.user_data[user_id].current_q_id # None THEN r
  ELSE [user_data |-> get_next_question(r.user_data, r.objects, user_id,
                                        learning_mode, tie),
        objects |-> r.objects]

\* main_app, lines 585 to 587: the profile of a registered user is loaded.
profile_loaded(fs, user_id) ==
  IF user_exists(fs, user_id) THEN get_user_profile(fs, user_id)
  ELSE [files |-> fs, ret |-> None, exc |-> "none"]

\* A run of main_app in which no button is pressed, the profile of the
\* user id loaded: the session after it.
main_app(user_profile, ud, objs, log, user_id, learning_mode, tie) ==
  with_question(restored(entered(ud, objs, user_id, new_user_state(objs)),
                         user_id, user_profile,
                         get_user_logs(log, user_id)),
                user_id, learning_mode, tie)

\* del st.session_state.user_data[user_id]
deleted(ud, user_id) == [v \in DOMAIN ud \ {user_id} |-> ud[v]]

\* The objects that an entry of user_data refers to; the others are
\* freed.
collected(objs, ud) ==
  [ref \in {r \in DOMAIN objs :
              \E v \in DOMAIN ud : r \in {ud[v].learner, ud[v].history}}
     |-> objs[ref]]

\* The question of the pool with the id of current_q_id.
current_q(current_q_id) ==
  df.rows[CHOOSE i \in 1..Len(df.rows) : df.rows[i].id = current_q_id.id]

\* The value of last_result: None, "correct" or "wrong".
Result(text) == [result |-> text]

\* Submit Answer: score, streak and last_result.
marked(state, is_correct) ==
  IF is_correct
  THEN [state EXCEPT !.score = @ + 1, !.streak = @ + 1,
                     !.last_result = Result("correct")]
  ELSE [state EXCEPT !.streak = 0, !.last_result = Result("wrong")]

\* Submit Answer: the files of a registered user after the answer.
submitted_files(fs, user_id, q, is_correct) ==
  IF ~user_exists(fs, user_id) THEN fs
  ELSE IF is_correct
  THEN update_learning_stats(fs, user_id, q.id, is_correct).files
  ELSE update_learning_stats(
         get_user_profile(add_wrong_question(fs, user_id, q.id,
                                             q.difficulty).files,
                          user_id).files,
         user_id, q.id, is_correct).files

\* A variant of submitted_objects that leaves the history as it is.
submitted_objects_unrecorded(objs, state, q, is_correct) ==
  [objs EXCEPT
     ![state.learner].belief =
        update_belief(objs[state.learner].ability_grid, @, q.difficulty,
                      IF is_correct THEN 1 ELSE 0).belief]

\* Submit Answer: the learner is updated with the answer and the id of
\* the question is appended to the history.
submitted_objects(objs, state, q, is_correct) ==
  [objs EXCEPT
     ![state.learner].belief =
        update_belief(objs[state.learner].ability_grid, @, q.difficulty,
                      IF is_correct THEN 1 ELSE 0).belief,
     ![state.history] = Append(@, q.id)]

----------------------------------------------------------------------------
(* VirtualStudent (src/simulation.py)                                      *)

\* CONFIG: "max_questions", "convergence_threshold", "stability_window".
CONFIG_max_questions == 50
CONFIG_convergence_threshold == Frac(5, 100)
CONFIG_stability_window == 3

\* An int passed for a parameter whose default is None.
IntArg(n) == [int |-> n]

\* max_questions or CONFIG["max_questions"]: None and 0 are falsy.
max_questions_or_config(max_questions) ==
  IF max_questions = None \/ max_questions.int = 0
  THEN CONFIG_max_questions
  ELSE max_questions.int

\* threshold or CONFIG["convergence_threshold"]: None and 0.0 are falsy.
threshold_or_config(threshold) ==
  IF threshold = None \/ threshold = Zero
  THEN CONFIG_convergence_threshold
  ELSE threshold

\* abs(x)
FAbs(x) == IF x.m < 0 THEN FNeg(x) ELSE x

\* abs(estimate - self.true_ability)
error_of(estimate, true_ability) == FAbs(FSub(estimate, true_ability))

\* is_converged on the estimates recorded so far.
is_converged(estimated_abilities, true_ability, threshold, use_stability) ==
  IF Len(estimated_abilities) = 0 THEN FALSE
  ELSE IF ~use_stability
  THEN FLt(error_of(estimated_abilities[Len(estimated_abilities)],
                    true_ability),
           threshold_or_config(threshold))
  ELSE IF Len(estimated_abilities) < CONFIG_stability_window THEN FALSE
  ELSE \A k \in (Len(estimated_abilities) - CONFIG_stability_window + 1)
                 ..Len(estimated_abilities) :
         FLt(error_of(estimated_abilities[k], true_ability),
             threshold_or_config(threshold))

\* VirtualStudent.__init__: the fields of a new student (its learner is
\* the learner of the variables ability_grid and belief; the entropy
\* trajectory and the question sequence, a copy of the history, are left
\* out). pc is the place of simulate_learning: not called, in the loop
\* before step, after the loop, returned.
VirtualStudent(true_ability, mode) ==
  [true_ability |-> true_ability, mode |-> mode,
   history |-> <<>>, estimated_abilities |-> <<>>,
   convergence_step |-> None, final_estimated |-> None,
   final_error |-> None, converged |-> FALSE,
   pc |-> "new", step |-> 0,
   question_df |-> None, max_questions_given |-> None, max_questions |-> 0,
   convergence_threshold_given |-> None, convergence_threshold |-> None,
   use_stability_check |-> FALSE]

\* VirtualStudent.select_next_question in Linear mode:
\* available_questions.sort_values('id', ascending=True).iloc[0]
first_by_id(rows) ==
  rows[CHOOSE i \in 1..Len(rows) : rows[i].id = smallest_id(rows, Len(rows))]

\* VirtualStudent.select_next_question: a row of the pool, or None.
student_next_question(grid, b, question_df, history, mode, tie) ==
  IF unanswered_rows(question_df.rows, history) = <<>> THEN None
  ELSE IF mode = "Adaptive"
  THEN select_next_question(grid, b, question_df, history, tie).ret
  ELSE first_by_id(unanswered_rows(question_df.rows, history))

\* simulate_learning up to the loop: the defaults are taken and the
\* estimate of the new learner is recorded.
simulation_started(s, initial_ability, question_df, max_questions, convergence_threshold, use_stability_check) ==
  [s EXCEPT
     !.estimated_abilities = Append(@, initial_ability),
     !.question_df = question_df,
     !.max_questions_given = max_questions,
     !.max_questions = max_questions_or_config(max_questions),
     !.convergence_threshold_given = convergence_threshold,
     !.convergence_threshold = threshold_or_config(convergence_threshold),
     !.use_stability_check = use_stability_check,
     !.step = 1,
     !.pc = IF max_questions_or_config(max_questions) >= 1
            THEN "loop" ELSE "after"]

\* One step of the loop after update_belief has returned the estimate:
\* the records, the convergence check, and the place after the step.
step_recorded(s, question_id, estimated_ability) ==
  IF is_converged(Append(s.estimated_abilities, estimated_ability),
                  s.true_ability, s.convergence_threshold,
                  s.use_stability_check)
  THEN [s EXCEPT
          !.history = Append(@, question_id),
          !.estimated_abilities = Append(@, estimated_ability),
          !.converged = TRUE,
          !.convergence_step = IntArg(s.step),
          !.final_estimated = estimated_ability,
          !.final_error = error_of(estimated_ability, s.true_ability),
          !.pc = "after"]
  ELSE [s EXCEPT
          !.history = Append(@, question_id),
          !.estimated_abilities = Append(@, estimated_ability),
          !.step = @ + 1,
          !.pc = IF s.step + 1 <= s.max_questions THEN "loop" ELSE "after"]

\* simulate_learning after the loop.
simulation_ended(s) ==
  IF s.converged THEN [s EXCEPT !.pc = "done"]
  ELSE [s EXCEPT
          !.convergence_step = IntArg(Len(s.history)),
          !.final_estimated =
             s.estimated_abilities[Len(s.estimated_abilities)],
          !.final_error =
             error_of(s.estimated_abilities[Len(s.estimated_abilities)],
                      s.true_ability),
          !.pc = "done"]

----------------------------------------------------------------------------
(* State                                                                   *)

VARIABLES
  ability_grid,   \* self.ability_grid
  belief,         \* self.belief
  sort_tie,       \* how this build's sort orders equal keys
  observations,   \* the caller's log: one row per update_belief call
  call,           \* the call that has just returned, or Idle
  files,          \* the files under UserManager's data_dir
  user_data,      \* st.session_state.user_data
  objects,        \* the learners and lists user_data's entries refer to
  student         \* the VirtualStudent of simulation.py, or None

vars ==
  <<ability_grid, belief, sort_tie, observations, call, files, user_data,
    objects, student>>

\* The state of the one learner, and the state of the application.
learner_vars == <<ability_grid, belief, sort_tie, observations>>
app_vars == <<files, user_data, objects>>

Idle == [op |-> "idle"]

\* The lists of answered ids a caller passes.
Histories == {<<>>, <<2>>, <<3, 1>>, <<1, 2, 3>>}

\* grid_size values no learner may be built with.
NonPositiveGridSizes == {0 - 1, 0}

Init ==
  /\ ability_grid = NewLearner(GridSize).ability_grid
  /\ belief = NewLearner(GridSize).belief
  /\ sort_tie \in TieOrders
  /\ observations = <<>>
  /\ call = Idle
  /\ files = init_users_db
  /\ user_data = EmptyDict
  /\ objects = EmptyDict
  /\ student = None

\* learner.update_belief(difficulty, is_correct), and the caller's
\* log_interaction of the observation.
UpdateBelief(difficulty, is_correct) ==
  /\ call = Idle
  /\ Len(observations) < MaxUpdates
  /\ \E r \in {update_belief(ability_grid, belief, difficulty, is_correct)} :
        /\ belief' = r.belief
        /\ call' = [op |-> "update_belief", difficulty |-> difficulty,
                    is_correct |-> is_correct, before |-> belief,
                    ret |-> r.ret, exc |-> r.exc]
  /\ observations' = Append(observations, LogRow(difficulty, is_correct))
  /\ UNCHANGED <<ability_grid, sort_tie>>
  /\ UNCHANGED <<app_vars, student>>

PredictSuccessProb(difficulty, ability) ==
  /\ call = Idle
  /\ call' = [op |-> "predict_success_prob", difficulty |-> difficulty,
              ability |-> ability, before |-> belief,
              ret |-> predict_success_prob(difficulty, ability),
              exc |-> "none"]
  /\ UNCHANGED <<ability_grid, belief, sort_tie, observations>>
  /\ UNCHANGED <<app_vars, student>>

GetEstimatedAbility ==
  /\ call = Idle
  /\ call' = [op |-> "get_estimated_ability",
              ret |-> get_estimated_ability(ability_grid, belief),
              exc |-> "none"]
  /\ UNCHANGED <<ability_grid, belief, sort_tie, observations>>
  /\ UNCHANGED <<app_vars, student>>

GetCurrentEntropy ==
  /\ call = Idle
  /\ call' = [op |-> "get_current_entropy",
              ret |-> get_current_entropy(belief), exc |-> "none"]
  /\ UNCHANGED <<ability_grid, belief, sort_tie, observations>>
  /\ UNCHANGED <<app_vars, student>>

CalculateEig(difficulty) ==
  /\ call = Idle
  /\ \E r \in {calculate_eig(ability_grid, belief, difficulty)} :
        /\ belief' = r.belief
        /\ call' = [op |-> "calculate_eig", difficulty |-> difficulty,
                    before |-> belief, ret |-> r.ret, exc |-> r.exc]
  /\ UNCHANGED <<ability_grid, sort_tie, observations>>
  /\ UNCHANGED <<app_vars, student>>

\* The select_next_question call that has just returned, as the call
\* before the next one.
EarlierCall ==
  [question_pool_df |-> call.question_pool_df,
   history_ids |-> call.history_ids,
   belief |-> call.belief, ret |-> call.ret, exc |-> call.exc]

\* The caller may call again: a first call, or the call that has just
\* returned made once more with the same frame and the same list.
CallsSelect(question_pool_df, history_ids) ==
  \/ call = Idle
  \/ /\ call.op = "select_next_question"
     /\ call.previous = <<>>
     /\ call.question_pool_df = question_pool_df
     /\ call.history_ids = history_ids

Selected(question_pool_df, history_ids, r) ==
  [op |-> "select_next_question",
   question_pool_df |-> question_pool_df,
   history_ids |-> history_ids,
   belief |-> belief,
   pool_after |-> r.question_pool_df,
   history_after |-> r.history_ids,
   previous |-> IF call = Idle THEN <<>> ELSE <<EarlierCall>>,
   ret |-> r.ret, exc |-> r.exc]

\* A variant of SelectNextQuestion whose sort leaves equal keys in another
\* order on a repeated call (a tie broken by chance).
SelectNextQuestionByChance(question_pool_df, history_ids) ==
  /\ CallsSelect(question_pool_df, history_ids)
  /\ \E r \in {select_next_question(ability_grid, belief, question_pool_df,
                 history_ids,
                 IF call = Idle THEN sort_tie
                 ELSE [i \in 1..Len(sort_tie) |-> 0 - sort_tie[i]])} :
        /\ belief' = r.belief
        /\ call' = Selected(question_pool_df, history_ids, r)
  /\ UNCHANGED <<ability_grid, sort_tie, observations>>
  /\ UNCHANGED <<app_vars, student>>

SelectNextQuestion(question_pool_df, history_ids) ==
  /\ CallsSelect(question_pool_df, history_ids)
  /\ \E r \in {select_next_question(ability_grid, belief, question_pool_df,
                                    history_ids, sort_tie)} :
        /\ belief' = r.belief
        /\ call' = Selected(question_pool_df, history_ids, r)
  /\ UNCHANGED <<ability_grid, sort_tie, observations>>
  /\ UNCHANGED <<app_vars, student>>

\* A second learner is built from the log; the live one is not touched.
RestoreLearner ==
  /\ call = Idle
  /\ observations # <<>>
  /\ call' = [op |-> "restore",
              learner |-> restore_learner(GridSize, observations),
              exc |-> "none"]
  /\ UNCHANGED <<ability_grid, belief, sort_tie, observations>>
  /\ UNCHANGED <<app_vars, student>>

\* ActiveInferenceLearner(grid_size): the caller's learner is the new one
\* (with an empty log) unless the constructor raises.
Construct(grid_size) ==
  /\ call = Idle
  /\ \E r \in {construct(grid_size)} :
        /\ call' = [op |-> "__init__", grid_size |-> grid_size,
                    before |-> belief, exc |-> r.exc]
        /\ IF r.exc = "none"
           THEN /\ ability_grid' = r.learner.ability_grid
                /\ belief' = r.learner.belief
                /\ observations' = <<>>
           ELSE UNCHANGED <<ability_grid, belief, observations>>
  /\ UNCHANGED sort_tie
  /\ UNCHANGED <<app_vars, student>>

Return ==
  /\ call # Idle
  /\ call' = Idle
  /\ UNCHANGED <<ability_grid, belief, sort_tie, observations>>
  /\ UNCHANGED <<app_vars, student>>

Next ==
  \/ \E d \in Difficulties, c \in Outcomes : UpdateBelief(d, c)
  \/ \E d \in QueryDifficulties, i \in DOMAIN ability_grid :
       PredictSuccessProb(d, ability_grid[i])
  \/ GetEstimatedAbility
  \/ GetCurrentEntropy
  \/ \E d \in QueryDifficulties : CalculateEig(d)
  \/ \E p \in Pools, h \in Histories : SelectNextQuestion(p, h)
  \/ RestoreLearner
  \/ Return

Spec == Init /\ [][Next]_vars

\* The callers of Spec, and callers that pass what the interface forbids.
NextMalformed ==
  \/ Next
  \/ \E d \in Malformed, c \in Outcomes : UpdateBelief(d, c)
  \/ \E d \in Malformed, i \in DOMAIN ability_grid :
       PredictSuccessProb(d, ability_grid[i])
  \/ \E d \in Malformed : CalculateEig(d)
  \/ \E n \in NonPositiveGridSizes : Construct(n)

SpecMalformed == Init /\ [][NextMalformed]_vars

\* Learners of every grid_size from 1 to GridSize.
InitGrids ==
  /\ \E grid_size \in 1..GridSize :
        /\ ability_grid = NewLearner(grid_size).ability_grid
        /\ belief = NewLearner(grid_size).belief
  /\ sort_tie \in TieOrders
  /\ observations = <<>>
  /\ call = Idle
  /\ files = init_users_db
  /\ user_data = EmptyDict
  /\ objects = EmptyDict
  /\ student = None

\* The updates and the two queries of the belief.
NextGrids ==
  \/ \E d \in Difficulties, c \in Outcomes : UpdateBelief(d, c)
  \/ GetEstimatedAbility
  \/ GetCurrentEntropy
  \/ Return

SpecGrids == InitGrids /\ [][NextGrids]_vars

\* update_belief(difficulty, is_correct) by a caller that feeds the
\* observation it has fed before, and logs it.
RepeatObservation(difficulty, is_correct) ==
  /\ call = Idle
  /\ Len(observations) < MaxRepeats
  /\ \A k \in 1..Len(observations) :
        observations[k] = LogRow(difficulty, is_correct)
  /\ \E r \in {update_belief(ability_grid, belief, difficulty, is_correct)} :
        /\ belief' = r.belief
        /\ call' = [op |-> "update_belief", difficulty |-> difficulty,
                    is_correct |-> is_correct, before |-> belief,
                    ret |-> r.ret, exc |-> r.exc]
  /\ observations' = Append(observations, LogRow(difficulty, is_correct))
  /\ UNCHANGED <<ability_grid, sort_tie>>
  /\ UNCHANGED <<app_vars, student>>

\* One observation fed again and again, and the two queries.
NextRepeat ==
  \/ \E d \in QueryDifficulties, c \in Outcomes : RepeatObservation(d, c)
  \/ GetEstimatedAbility
  \/ GetCurrentEntropy
  \/ Return

SpecRepeat == Init /\ [][NextRepeat]_vars

\* update_belief(difficulty, is_correct) on a belief that a run of one
\* repeated observation has left: any observation, once.
UpdateAfterRepeats(difficulty, is_correct) ==
  /\ call = Idle
  /\ Len(observations) \in 1..MaxRepeats
  /\ \A k \in 1..Len(observations) : observations[k] = observations[1]
  /\ \E r \in {update_belief(ability_grid, belief, difficulty, is_correct)} :
        /\ belief' = r.belief
        /\ call' = [op |-> "update_belief", difficulty |-> difficulty,
                    is_correct |-> is_correct, before |-> belief,
                    ret |-> r.ret, exc |-> r.exc]
  /\ observations' = Append(observations, LogRow(difficulty, is_correct))
  /\ UNCHANGED <<ability_grid, sort_tie>>
  /\ UNCHANGED <<app_vars, student>>

\* Beliefs from the uniform prior to the concentrated ones, and one
\* update of each.
NextSaturated ==
  \/ \E d \in QueryDifficulties, c \in Outcomes : RepeatObservation(d, c)
  \/ \E d \in QueryDifficulties, c \in Outcomes : UpdateAfterRepeats(d, c)
  \/ GetEstimatedAbility
  \/ GetCurrentEntropy
  \/ Return

SpecSaturated == Init /\ [][NextSaturated]_vars

\* A long run of one repeated observation, with the likelihood and the
\* information gain queried along the way.
NextLongRun ==
  \/ \E d \in QueryDifficulties, c \in Outcomes : RepeatObservation(d, c)
  \/ \E d \in QueryDifficulties, i \in DOMAIN ability_grid :
       PredictSuccessProb(d, ability_grid[i])
  \/ \E d \in QueryDifficulties : CalculateEig(d)
  \/ Return

SpecLongRun == Init /\ [][NextLongRun]_vars

\* The usernames callers pass: two plain ones, one that is too short once
\* stripped, and two that hold a path separator.
Ann == <<"a", "n", "n">>
Bob == <<"b", "o", "b">>
BlankAb == <<" ", "a", "b">>
DotDotUsers == <<".", ".", "/", "u", "s", "e", "r", "s">>
ASlashB == <<"a", "/", "b">>
Usernames == {Ann, Bob, BlankAb, DotDotUsers, ASlashB}

\* The passwords callers pass; the last one is too short.
Passwords == {"secret", "hunter2", "12345"}

\* A user logs in at most MaxLogins times.
MaxLogins == 1

\* user_manager.register_user(username, password)
RegisterUser(username, password) ==
  /\ call = Idle
  /\ \E r \in {register_user(files, username, password)} :
        /\ files' = r.files
        /\ call' = [op |-> "register_user", username |-> username,
                    password |-> password, files_before |-> files,
                    ret |-> r.ret, exc |-> r.exc]
  /\ UNCHANGED <<user_data, objects>>
  /\ UNCHANGED <<learner_vars, student>>

\* user_manager.authenticate_user(username, password)
AuthenticateUser(username, password) ==
  /\ call = Idle
  /\ user_exists(files, username) =>
       _load_users(files).entries[username].login_count < MaxLogins
  /\ \E r \in {authenticate_user(files, username, password)} :
        /\ files' = r.files
        /\ call' = [op |-> "authenticate_user", username |-> username,
                    password |-> password, files_before |-> files,
                    ret |-> r.ret, exc |-> r.exc]
  /\ UNCHANGED <<user_data, objects>>
  /\ UNCHANGED <<learner_vars, student>>

\* user_manager.get_user_profile(username)
GetUserProfile(username) ==
  /\ call = Idle
  /\ \E r \in {get_user_profile(files, username)} :
        /\ files' = r.files
        /\ call' = [op |-> "get_user_profile", username |-> username,
                    files_before |-> files, ret |-> r.ret, exc |-> r.exc]
  /\ UNCHANGED <<user_data, objects>>
  /\ UNCHANGED <<learner_vars, student>>

\* The callers of UserManager.
NextUsers ==
  \/ \E u \in Usernames, p \in Passwords : RegisterUser(u, p)
  \/ \E u \in Usernames, p \in Passwords : AuthenticateUser(u, p)
  \/ \E u \in Usernames : GetUserProfile(u)
  \/ Return

SpecUsers == Init /\ [][NextUsers]_vars

----------------------------------------------------------------------------
(* The application (src/app.py): the users of one browser session. The    *)
(* log file logs/learning_history.csv is the variable observations.        *)

\* The user ids typed into the sidebar or logged in with, and the one
\* that registers.
UserIds == {Ann, BlankAb}
Registrants == {Ann}

\* A run of main_app for the user id, no button pressed.
MainApp(raw_user_id, learning_mode) ==
  /\ call = Idle
  /\ \E user_id \in {strip(raw_user_id)} :
       \E g \in {profile_loaded(files, user_id)} :
         \E r \in {main_app(g.ret, user_data, objects, observations,
                            user_id, learning_mode, sort_tie)} :
            /\ user_data' = r.user_data
            /\ objects' = r.objects
            /\ files' = g.files
          /\ call' = [op |-> "main_app", user_id |-> user_id,
                      user_data_before |-> user_data,
                      objects_before |-> objects]
  /\ UNCHANGED <<learner_vars, student>>

\* Submit Answer, pressed on the question of the user id (the id as
\* main_app has stripped it).
SubmitAnswer(user_id, learning_mode, is_correct) ==
  /\ call = Idle
  /\ user_id \in DOMAIN user_data
  /\ user_data[user_id].current_q_id.kind = "id"
  /\ ~user_data[user_id].waiting_next
  /\ Len(observations) < MaxUpdates
  /\ \E q \in {current_q(user_data[user_id].current_q_id)} :
       /\ user_data' =
            [user_data EXCEPT
               ![user_id] = [marked(@, is_correct)
                               EXCEPT !.waiting_next = TRUE]]
       /\ objects' = submitted_objects(objects, user_data[user_id], q,
                                       is_correct)
       /\ files' = submitted_files(profile_loaded(files, user_id).files,
                                   user_id, q, is_correct)
       /\ observations' =
            Append(observations,
                   AppLogRow(user_id, q.id, q.difficulty,
                             IF is_correct THEN 1 ELSE 0))
       /\ call' = [op |-> "submit", user_id |-> user_id,
                   user_data_before |-> user_data,
                   objects_before |-> objects]
  /\ UNCHANGED <<ability_grid, belief, sort_tie, student>>

\* Next Question, pressed after an answer of the user id.
NextQuestion(user_id, learning_mode) ==
  /\ call = Idle
  /\ user_id \in DOMAIN user_data
  /\ user_data[user_id].current_q_id.kind = "id"
  /\ user_data[user_id].waiting_next
  /\ user_data' =
       [get_next_question(user_data, objects, user_id, learning_mode,
                          sort_tie)
          EXCEPT ![user_id].waiting_next = FALSE,
                 ![user_id].last_result = None]
  /\ files' = profile_loaded(files, user_id).files
  /\ call' = [op |-> "next_question", user_id |-> user_id,
              user_data_before |-> user_data, objects_before |-> objects]
  /\ UNCHANGED objects
  /\ UNCHANGED <<learner_vars, student>>

\* Start New Session, pressed on the screen of a finished session: the
\* entry is deleted and st.rerun() runs main_app again.
StartNewSession(user_id, learning_mode) ==
  /\ call = Idle
  /\ user_id \in DOMAIN user_data
  /\ user_data[user_id].current_q_id = Finished
  /\ \E ud \in {deleted(user_data, user_id)} :
       \E g \in {profile_loaded(files, user_id)} :
         \E r \in {main_app(g.ret, ud, collected(objects, ud), observations,
                            user_id, learning_mode, sort_tie)} :
            /\ user_data' = r.user_data
            /\ objects' = r.objects
            /\ files' = g.files
  /\ call' = [op |-> "start_new_session", user_id |-> user_id,
              user_data_before |-> user_data, objects_before |-> objects]
  /\ UNCHANGED <<learner_vars, student>>

\* A new browser session: st.session_state.user_data = {}
NewSession ==
  /\ call = Idle
  /\ user_data # EmptyDict
  /\ user_data' = EmptyDict
  /\ objects' = EmptyDict
  /\ call' = [op |-> "new_session"]
  /\ UNCHANGED files
  /\ UNCHANGED <<learner_vars, student>>

NextApp ==
  \/ \E u \in Registrants : RegisterUser(u, "secret")
  \/ \E u \in UserIds, m \in LearningModes : MainApp(u, m)
  \/ \E u \in UserIds, m \in LearningModes, c \in BOOLEAN :
       SubmitAnswer(strip(u), m, c)
  \/ \E u \in UserIds, m \in LearningModes : NextQuestion(strip(u), m)
  \/ \E u \in UserIds, m \in LearningModes : StartNewSession(strip(u), m)
  \/ NewSession
  \/ Return

SpecApp == Init /\ [][NextApp]_vars

----------------------------------------------------------------------------
(* get_next_question (src/app.py) on the pools load_data may return       *)

\* The pools of Pools and one whose rows are not in the order of the ids.
UnsortedPool == Frame(<<Question(3, 2), Question(1, 5), Question(2, 8)>>)
LoadedPools == Pools \cup {UnsortedPool}

\* get_next_question() with the learner and a history of one user state.
GetNextQuestion(question_pool, history, learning_mode) ==
  /\ call = Idle
  /\ call' = [op |-> "get_next_question",
              question_pool |-> question_pool,
              history |-> history,
              learning_mode |-> learning_mode,
              belief |-> belief,
              current_q_id |->
                next_question(question_pool,
                              [ability_grid |-> ability_grid,
                               belief |-> belief],
                              history, learning_mode, sort_tie)]
  /\ UNCHANGED learner_vars
  /\ UNCHANGED <<app_vars, student>>

NextPools ==
  \/ \E d \in Difficulties, c \in Outcomes : UpdateBelief(d, c)
  \/ \E p \in LoadedPools, h \in Histories, m \in LearningModes :
       GetNextQuestion(p, h, m)
  \/ Return

SpecPools == Init /\ [][NextPools]_vars

----------------------------------------------------------------------------
(* VirtualStudent.simulate_learning (src/simulation.py), step by step      *)

TrueAbilities == {Tenths(5), Tenths(8)}
SimulationModes == {"Adaptive", "Linear"}
SimulationPools == {df, Frame(<<Question(1, 2), Question(2, 5),
                                Question(3, 8)>>)}
MaxQuestionsGiven == {None} \cup {IntArg(n) : n \in 0..MaxUpdates}
ThresholdsGiven == {None, Zero, Tenths(3)}

\* student = VirtualStudent(student_id, true_ability, mode), as
\* run_single_experiment makes one for every run.
NewVirtualStudent(true_ability, mode) ==
  /\ IF student = None THEN TRUE ELSE student.pc = "done"
  /\ student' = VirtualStudent(true_ability, mode)
  /\ ability_grid' = NewLearner(GridSize).ability_grid
  /\ belief' = NewLearner(GridSize).belief
  /\ UNCHANGED <<sort_tie, observations, call>>
  /\ UNCHANGED app_vars

\* student.simulate_learning(question_df, ...) is called.
SimulateLearning(question_df, max_questions, convergence_threshold, use_stability_check) ==
  /\ student # None
  /\ student.pc = "new"
  /\ student' = simulation_started(student,
                    get_estimated_ability(ability_grid, belief),
                    question_df, max_questions, convergence_threshold,
                    use_stability_check)
  /\ UNCHANGED <<learner_vars, call>>
  /\ UNCHANGED app_vars

\* One step of the loop; is_correct is what simulate_answer draws.
AnswerQuestion(is_correct) ==
  /\ student # None
  /\ student.pc = "loop"
  /\ \E next_q \in
         {student_next_question(ability_grid, belief, student.question_df,
                                student.history, student.mode, sort_tie)} :
       IF next_q = None
       THEN /\ student' = [student EXCEPT !.pc = "after"]
            /\ UNCHANGED belief
       ELSE \E r \in {update_belief(ability_grid, belief,
                                    next_q.difficulty, is_correct)} :
              /\ belief' = r.belief
              /\ student' =
                   step_recorded(student, next_q.id,
                                 get_estimated_ability(ability_grid,
                                                       r.belief))
  /\ UNCHANGED <<ability_grid, sort_tie, observations, call>>
  /\ UNCHANGED app_vars

\* The loop has ended and simulate_learning returns.
EndSimulation ==
  /\ student # None
  /\ student.pc = "after"
  /\ student' = simulation_ended(student)
  /\ UNCHANGED <<learner_vars, call>>
  /\ UNCHANGED app_vars

NextSim ==
  \/ \E a \in TrueAbilities, m \in SimulationModes : NewVirtualStudent(a, m)
  \/ \E p \in SimulationPools, n \in MaxQuestionsGiven,
        t \in ThresholdsGiven, s \in BOOLEAN :
       SimulateLearning(p, n, t, s)
  \/ \E c \in Outcomes : AnswerQuestion(c)
  \/ EndSimulation

SpecSim == Init /\ [][NextSim]_vars

----------------------------------------------------------------------------
(* WrongQuestionsManager (src/wrong_questions.py) and its callers          *)

\* The users and the questions the methods are called with.
NotebookCalls == {<<Ann, 1>>, <<Ann, 2>>, <<Bob, 1>>}

\* wrong_questions_detail in the profile file of the user, [] without one.
stored_detail(fs, username) ==
  IF profile_file(username) \in DOMAIN fs
  THEN repaired(fs[profile_file(username)]).fields.wrong_questions_detail
  ELSE <<>>

\* The record of the question in the list, or None.
record_of(wrong_questions, question_id) ==
  IF existing(wrong_questions, question_id) = 0 THEN None
  ELSE wrong_questions[existing(wrong_questions, question_id)]

NotebookCall(op, username, question_id, r) ==
  [op |-> op, username |-> username, question_id |-> question_id,
   files_before |-> files, exc |-> r.exc]

\* add_wrong_question(username, question_id, question_data, ...)
AddWrongQuestion(username, question_id) ==
  /\ call = Idle
  /\ \E q \in {record_of(stored_detail(files, username), question_id)} :
       IF q = None THEN TRUE ELSE q.wrong_count < MaxUpdates
  /\ \E r \in {add_wrong_question(files, username, question_id,
                    current_q(QuestionId(question_id)).difficulty)} :
       /\ files' = r.files
       /\ call' = NotebookCall("add_wrong_question", username, question_id,
                               r)
  /\ UNCHANGED <<user_data, objects>>
  /\ UNCHANGED <<learner_vars, student>>

\* mark_as_mastered(username, question_id)
MarkAsMastered(username, question_id) ==
  /\ call = Idle
  /\ \E r \in {mark_as_mastered(files, username, question_id)} :
       /\ files' = r.files
       /\ call' = NotebookCall("mark_as_mastered", username, question_id, r)
  /\ UNCHANGED <<user_data, objects>>
  /\ UNCHANGED <<learner_vars, student>>

\* increment_review_count(username, question_id)
IncrementReviewCount(username, question_id) ==
  /\ call = Idle
  /\ \E q \in {record_of(stored_detail(files, username), question_id)} :
       IF q = None THEN TRUE ELSE q.review_count < MaxLogins
  /\ \E r \in {increment_review_count(files, username, question_id)} :
       /\ files' = r.files
       /\ call' = NotebookCall("increment_review_count", username,
                               question_id, r)
  /\ UNCHANGED <<user_data, objects>>
  /\ UNCHANGED <<learner_vars, student>>

\* remove_wrong_question(username, question_id)
RemoveWrongQuestion(username, question_id) ==
  /\ call = Idle
  /\ \E r \in {remove_wrong_question(files, username, question_id)} :
       /\ files' = r.files
       /\ call' = NotebookCall("remove_wrong_question", username,
                               question_id, r)
  /\ UNCHANGED <<user_data, objects>>
  /\ UNCHANGED <<learner_vars, student>>

NextNotebook ==
  \/ \E c \in NotebookCalls : AddWrongQuestion(c[1], c[2])
  \/ \E c \in NotebookCalls : MarkAsMastered(c[1], c[2])
  \/ \E c \in NotebookCalls : IncrementReviewCount(c[1], c[2])
  \/ \E c \in NotebookCalls : RemoveWrongQuestion(c[1], c[2])
  \/ Return

SpecNotebook == Init /\ [][NextNotebook]_vars

----------------------------------------------------------------------------
(* UserManager.update_learning_stats (src/user_manager.py)                 *)

\* The user whose answers are counted and the questions answered.
StatsUser == Ann
StatsQuestions == {1, 2, 3}

\* The fields of the user's profile file, those of a new profile without
\* one.
stored_profile(fs, username) ==
  repaired(get_user_profile(fs, username).files[profile_file(username)])
    .fields

\* update_learning_stats(username, question_id, is_correct)
UpdateLearningStats(username, question_id, is_correct) ==
  /\ call = Idle
  /\ Len(stored_profile(files, username).learning_history) <= MaxUpdates + 1
  /\ \E r \in {update_learning_stats(files, username, question_id,
                                      is_correct)} :
       /\ files' = r.files
       /\ call' = [op |-> "update_learning_stats", username |-> username,
                   question_id |-> question_id, is_correct |-> is_correct,
                   files_before |-> files, exc |-> r.exc]
  /\ UNCHANGED <<user_data, objects>>
  /\ UNCHANGED <<learner_vars, student>>

NextStats ==
  \/ \E q \in StatsQuestions, is_correct \in BOOLEAN :
       UpdateLearningStats(StatsUser, q, is_correct)
  \/ Return

SpecStats == Init /\ [][NextStats]_vars

----------------------------------------------------------------------------
(* Properties                                                              *)

\* |x - y| <= tol
Within(x, y, tol) == FLe(FSub(x, y), tol) /\ FLe(FSub(y, x), tol)

NonNegative(x) == ~IsNaN(x) /\ x.m >= 0

\* The tolerance on the sum of the belief: 2^-11, eight units in the last
\* place of 1.0 in this format.
Tolerance == [m |-> 8192, e |-> 0 - 24]

\* C1: after construction and after every update_belief call with a
\* difficulty in [0,1] and either outcome, every entry of the belief is
\* non-negative and the entries sum to 1 within the tolerance.
C1_BeliefNormalized ==
  /\ \A i \in DOMAIN belief : NonNegative(belief[i])
  /\ Within(NpSum(belief), One, Tolerance)

\* Two updates have been made, the last one has just returned.
C1_Witness ==
  /\ call.op = "update_belief"
  /\ Len(observations) >= 2
  /\ belief # call.before

\* lik[i] of the observation of the update_belief call that has returned.
BayesLikelihood(i) ==
  IF call.is_correct = 0
  THEN FSub(One, predict_success_prob(call.difficulty, ability_grid[i]))
  ELSE predict_success_prob(call.difficulty, ability_grid[i])

\* old Belief[i] * lik[i], for every i.
BayesProduct ==
  Array([i \in DOMAIN ability_grid |->
           FMul(call.before[i], BayesLikelihood(i))], Len(ability_grid))

BayesPosterior(product) == VDivS(product, NpSum(product))

\* C2: update_belief(d, outcome) replaces the belief with the Bayes
\* posterior old[i] * lik[i] / sum_j(old[j] * lik[j]), lik being
\* P(correct) for a correct outcome and 1 - P(correct) for an incorrect
\* one, and returns get_estimated_ability() of the new belief.
C2_BayesPosterior ==
  call.op = "update_belief" =>
    /\ call.exc = "none"
    /\ belief = BayesPosterior(BayesProduct)
    /\ call.ret = get_estimated_ability(ability_grid, belief)

\* An incorrect answer has been observed after an earlier observation.
C2_Witness ==
  /\ call.op = "update_belief"
  /\ call.is_correct = 0
  /\ Len(observations) >= 2
  /\ call.before # NewLearner(GridSize).belief

\* C3: only update_belief changes the belief; no operation changes the
\* ability grid; select_next_question leaves the caller's pool and
\* answered list as they were passed.
C3_OnlyUpdateBeliefMutates ==
  [][/\ ability_grid' = ability_grid
     /\ belief' # belief => call'.op = "update_belief"
     /\ call'.op = "select_next_question" =>
          /\ call'.pool_after = call'.question_pool_df
          /\ call'.history_after = call'.history_ids]_vars

\* calculate_eig has returned on a belief that is no longer the prior.
C3_Witness ==
  /\ call.op = "calculate_eig"
  /\ observations # <<>>
  /\ belief = call.before
  /\ call.ret.m > 0

IsAnswered(history_ids, id) ==
  \E k \in 1..Len(history_ids) : history_ids[k] = id

\* The positions in the pool of the candidates not answered yet.
Candidates(c) ==
  {i \in 1..Len(c.question_pool_df.rows) :
     ~IsAnswered(c.history_ids, c.question_pool_df.rows[i].id)}

\* calculate_eig of the difficulty of row i of the pool, under the belief.
EigOfRow(c, i) ==
  calculate_eig(ability_grid, belief,
                c.question_pool_df.rows[i].difficulty).ret

IsRow(c, j) ==
  /\ c.ret # None
  /\ c.ret.id = c.question_pool_df.rows[j].id
  /\ c.ret.difficulty = c.question_pool_df.rows[j].difficulty

\* C4: when some candidate of the pool is not answered yet,
\* select_next_question returns a candidate of the pool that is not
\* answered and whose EIG is at least that of every unanswered candidate.
C4_SelectsMaxEig ==
  (call.op = "select_next_question" /\ Candidates(call) # {}) =>
    /\ call.exc = "none"
    /\ \E j \in Candidates(call) :
         /\ IsRow(call, j)
         /\ call.ret.eig = EigOfRow(call, j)
    /\ \A i \in Candidates(call) : FLe(EigOfRow(call, i), call.ret.eig)

\* A question was returned from a pool with answered and unanswered rows,
\* after an update.
C4_Witness ==
  /\ call.op = "select_next_question"
  /\ call.ret # None
  /\ Cardinality(Candidates(call)) = 2
  /\ observations # <<>>

\* C5: when every candidate id of the pool is in the answered list (a pool
\* without candidates included), select_next_question returns None and
\* raises nothing.
C5_ExhaustedPoolReturnsNone ==
  (call.op = "select_next_question" /\ Candidates(call) = {}) =>
    /\ call.exc = "none"
    /\ call.ret = None

\* C6: of several unanswered candidates with the maximal EIG,
\* select_next_question returns the first in the pool's order: no
\* unanswered row before the returned one has an EIG as large.
C6_TieFirstOccurrence ==
  (call.op = "select_next_question" /\ call.exc = "none"
     /\ call.ret # None) =>
    \A j \in Candidates(call) : IsRow(call, j) =>
      \A i \in Candidates(call) :
        i < j => FLt(EigOfRow(call, i), EigOfRow(call, j))

Degenerate(s) == IsNaN(s) \/ s.m = 0

\* C8: when the unnormalized posterior in update_belief sums to zero or
\* is not finite, the call raises an error and the belief after it is the
\* belief before it.
C8_DegenerateNormalizationRaises ==
  (call.op = "update_belief" /\ Degenerate(NpSum(BayesProduct))) =>
    /\ call.exc # "none"
    /\ belief = call.before

InUnit(d) == FLe(Zero, d) /\ FLe(d, One)

TakesDifficulty == {"update_belief", "calculate_eig", "predict_success_prob"}

\* C9: a difficulty outside [0,1] passed to update_belief, calculate_eig
\* or predict_success_prob, and a zero or negative grid_size passed to the
\* constructor, is rejected with an error at that call, and the belief is
\* unchanged by the rejected call.
C9_InvalidInputRejected ==
  /\ (call.op \in TakesDifficulty /\ ~InUnit(call.difficulty)) =>
       (call.exc # "none" /\ belief = call.before)
  /\ (call.op = "__init__" /\ call.grid_size <= 0) =>
       (call.exc # "none" /\ belief = call.before)

EigTolerance == Tolerance

\* C11: for every belief reached from the uniform prior by valid
\* update_belief calls and every difficulty in [0,1], calculate_eig is
\* not below zero by more than the tolerance: the current entropy is not
\* smaller than the expected posterior entropy.
C11_EigNonNegative ==
  call.op = "calculate_eig" => FLe(FNeg(EigTolerance), call.ret)

\* calculate_eig has returned for an end of [0,1] after two updates.
C11_Witness ==
  /\ call.op = "calculate_eig"
  /\ call.difficulty \in {Tenths(0), Tenths(10)}
  /\ Len(observations) >= 2

\* np.log(grid_size) for the learner's grid.
LogGridSize == FLog(FromInt(Len(ability_grid)))

IsUniform(b) == \A i \in DOMAIN b : b[i] = b[1]

\* 0 <= get_current_entropy() <= log(grid_size)
EntropyInBounds ==
  /\ FLe(Zero, get_current_entropy(belief))
  /\ FLe(get_current_entropy(belief), LogGridSize)

\* After an update the belief is not uniform and the entropy is below
\* log(grid_size).
NotUniformAgain ==
  observations # <<>> =>
    /\ ~IsUniform(belief)
    /\ FLt(get_current_entropy(belief), LogGridSize)

\* C12 as stated: get_current_entropy() lies in [0, log(grid_size)] in
\* every reachable state, and after one or more valid update_belief calls
\* the belief is never uniform again.
C12_UniformOnlyAtConstruction == EntropyInBounds /\ NotUniformAgain

\* Every observation of the log has the outcome of the first.
SameOutcome(user_logs) ==
  \A k \in 1..Len(user_logs) : user_logs[k].correct = user_logs[1].correct

\* C12, amended: get_current_entropy() lies in [0, log(grid_size)] in
\* every reachable state, and for a grid of two or more points the belief
\* is not uniform, and the entropy is below log(grid_size), after one or
\* more valid update_belief calls that all had the same outcome (the
\* first update made on the uniform prior among them).
C12_EntropyBounds ==
  /\ EntropyInBounds
  /\ (Len(ability_grid) >= 2 /\ SameOutcome(observations)) => NotUniformAgain

\* The entropy has been read after two updates of a grid of two or more
\* points.
C12_Witness ==
  /\ call.op = "get_current_entropy"
  /\ Len(ability_grid) >= 2
  /\ Len(observations) >= 2
  /\ SameOutcome(observations)
  /\ FLt(Zero, call.ret)
  /\ FLt(call.ret, LogGridSize)

\* The update_belief call that has returned has lowered the entropy.
EntropyDecreased ==
  FLt(get_current_entropy(belief), get_current_entropy(call.before))

\* The estimate before the update_belief call that has returned.
EstimateBefore == get_estimated_ability(ability_grid, call.before)

\* The update_belief call that has returned has not raised the entropy.
EntropyNotIncreased ==
  FLe(get_current_entropy(belief), get_current_entropy(call.before))

GridTop == ability_grid[Len(ability_grid)]
GridBottom == ability_grid[1]

\* The distance of the estimate from the end of the grid above which an
\* update still moves it by more than the rounding of a sum: 2^-7.
Saturation == [m |-> 8192, e |-> 0 - 20]

\* C13 as stated: one (difficulty, correct) observation fed repeatedly
\* from the uniform prior: every update strictly decreases the entropy
\* and strictly increases the estimate, which stays below the top of the
\* grid; one (difficulty, incorrect) observation fed repeatedly: every
\* update strictly decreases the estimate, which stays above the bottom.
C13_StrictlyMonotoneUnderRepeats ==
  call.op = "update_belief" =>
    IF call.is_correct = 1
    THEN /\ EntropyDecreased
         /\ FLt(EstimateBefore, call.ret)
         /\ FLe(call.ret, GridTop)
    ELSE /\ FLt(call.ret, EstimateBefore)
         /\ FLe(GridBottom, call.ret)

\* C13, amended: under a repeated (difficulty, correct) observation no
\* update raises the entropy or lowers the estimate by more than the
\* tolerance, the estimate stays in the grid up to the tolerance, and while
\* the estimate is
\* further than Saturation from the top of the grid every update
\* strictly decreases the entropy and strictly increases the estimate;
\* likewise downwards under a repeated (difficulty, incorrect) one.
C13_MonotoneUntilSaturated ==
  call.op = "update_belief" =>
    IF call.is_correct = 1
    THEN /\ EntropyNotIncreased
         /\ FLe(FSub(EstimateBefore, Tolerance), call.ret)
         /\ FLe(call.ret, FAdd(GridTop, Tolerance))
         /\ FLt(Saturation, FSub(GridTop, EstimateBefore)) =>
              (EntropyDecreased /\ FLt(EstimateBefore, call.ret))
    ELSE /\ FLe(call.ret, FAdd(EstimateBefore, Tolerance))
         /\ FLe(FSub(GridBottom, Tolerance), call.ret)
         /\ FLt(Saturation, FSub(EstimateBefore, GridBottom)) =>
              FLt(call.ret, EstimateBefore)

\* The third correct answer to the same question has raised the
\* estimate, which is still away from the top of the grid.
C13_Witness ==
  /\ call.op = "update_belief"
  /\ call.is_correct = 1
  /\ Len(observations) >= 3
  /\ SameOutcome(observations)
  /\ FLt(EstimateBefore, call.ret)
  /\ FLt(Saturation, FSub(GridTop, call.ret))

\* The update_belief call that has returned has moved the estimate
\* strictly in the direction of its outcome.
EstimateMoved ==
  IF call.is_correct = 1 THEN FLt(EstimateBefore, call.ret)
  ELSE FLt(call.ret, EstimateBefore)

\* The update_belief call that has returned has not moved the estimate
\* against its outcome by more than the tolerance.
EstimateNotMovedBack ==
  IF call.is_correct = 1 THEN FLe(FSub(EstimateBefore, Tolerance), call.ret)
  ELSE FLe(call.ret, FAdd(EstimateBefore, Tolerance))

\* From the uniform prior update_belief(0.5, correct) returns an
\* estimate above 0.5.
CorrectOnMediumRaises ==
  (/\ call.op = "update_belief"
   /\ IsUniform(call.before)
   /\ call.difficulty = Tenths(5)
   /\ call.is_correct = 1) => FLt(Half, call.ret)

\* The share of the belief below which a grid point no longer shows in
\* the estimate: 2^-7.
MinShare == [m |-> 8192, e |-> 0 - 20]

\* Every entry of the belief b is at least MinShare.
Spread(b) == \A i \in DOMAIN b : FLe(MinShare, b[i])

\* C14 as stated: from any belief reachable by valid updates, an
\* update_belief call with a correct outcome returns an estimate strictly
\* greater than the estimate before the call, one with an incorrect
\* outcome a strictly smaller one, and from the uniform prior
\* update_belief(0.5, correct) moves the estimate above 0.5.
C14_EveryUpdateMovesEstimate ==
  /\ call.op = "update_belief" => EstimateMoved
  /\ CorrectOnMediumRaises

\* C14, amended: no update_belief call moves the estimate against its
\* outcome by more than the tolerance; a call on a belief that still has
\* a share of at least MinShare on every grid point moves the estimate
\* strictly (up when correct, down when incorrect); and from the uniform
\* prior update_belief(0.5, correct) moves the estimate above 0.5.
C14_UpdateMovesSpreadEstimate ==
  /\ call.op = "update_belief" => EstimateNotMovedBack
  /\ (call.op = "update_belief" /\ Spread(call.before)) => EstimateMoved
  /\ CorrectOnMediumRaises

\* An incorrect answer after two correct ones has lowered the estimate
\* of a belief that was still spread over the grid.
C14_Witness ==
  /\ call.op = "update_belief"
  /\ call.is_correct = 0
  /\ Len(observations) = 3
  /\ observations[1].correct = 1
  /\ Spread(call.before)
  /\ FLt(call.ret, EstimateBefore)

\* sum(ability_grid * belief) of the current state.
Expectation == NpSum(VMul(ability_grid, belief))

\* get_estimated_ability returns the expectation of the belief.
ReturnsExpectation ==
  call.op = "get_estimated_ability" => call.ret = Expectation

\* C15 as stated: get_estimated_ability() returns
\* sum_i AbilityGrid[i] * Belief[i]; in every state the value lies
\* between the smallest and the largest grid point, and it equals 0.5
\* immediately after construction.
C15_EstimateInGridAndHalf ==
  /\ ReturnsExpectation
  /\ FLe(GridBottom, Expectation) /\ FLe(Expectation, GridTop)
  /\ observations = <<>> => Expectation = Half

\* C15, amended: get_estimated_ability() returns
\* sum_i AbilityGrid[i] * Belief[i]; in every state the value lies
\* between the smallest and the largest grid point up to the tolerance,
\* hence in [0, 1]; immediately after construction it is within the
\* tolerance of 0.5 for a grid of two or more points, and it is the one
\* grid point 0.01 for grid_size = 1.
C15_EstimateInGrid ==
  /\ ReturnsExpectation
  /\ FLe(FSub(GridBottom, Tolerance), Expectation)
  /\ FLe(Expectation, FAdd(GridTop, Tolerance))
  /\ FLe(Zero, Expectation) /\ FLe(Expectation, One)
  /\ (observations = <<>> /\ Len(ability_grid) >= 2) =>
        Within(Expectation, Half, Tolerance)
  /\ (observations = <<>> /\ Len(ability_grid) = 1) =>
        Expectation = GridBottom

\* get_estimated_ability has returned after two updates of a grid of
\* two or more points, with a value other than 0.5.
C15_Witness ==
  /\ call.op = "get_estimated_ability"
  /\ Len(observations) = 2
  /\ Len(ability_grid) >= 2
  /\ call.ret = Expectation
  /\ call.ret # Half

Positive(x) == ~IsNaN(x) /\ x.m > 0

\* predict_success_prob has returned a value in [0.25, 0.95].
LikelihoodInRange ==
  call.op = "predict_success_prob" =>
    /\ FLe(guess_factor, call.ret)
    /\ FLe(call.ret, FSub(One, slip_factor))

\* np.sum(unnormalized_posterior) of the update_belief call that has
\* returned.
UpdateSum ==
  NpSum(VMul(call.before,
             outcome_likelihood(ability_grid, call.difficulty,
                                call.is_correct)))

\* p_correct, which is also np.sum(post_correct), and np.sum(post_wrong)
\* of the calculate_eig call that has returned.
EigSumCorrect ==
  NpSum(VMul(likelihood_grid(ability_grid, call.difficulty), call.before))

EigSumWrong ==
  NpSum(VMul(call.before,
             VOneMinus(likelihood_grid(ability_grid, call.difficulty))))

\* The normalizing sums of update_belief and of both branches of
\* calculate_eig are positive, and so are p_correct and p_wrong.
NormalizingSumsPositive ==
  /\ call.op = "update_belief" => Positive(UpdateSum)
  /\ call.op = "calculate_eig" =>
       /\ Positive(EigSumCorrect)
       /\ Positive(EigSumWrong)
       /\ Positive(FSub(One, EigSumCorrect))

\* C16 as stated: under update_belief calls with difficulties in [0, 1]
\* every likelihood value lies in [0.25, 0.95], every belief entry stays
\* strictly positive, and the normalizing sums of update_belief and of
\* both branches of calculate_eig are strictly positive.
C16_BeliefStrictlyPositive ==
  /\ LikelihoodInRange
  /\ \A i \in DOMAIN belief : Positive(belief[i])
  /\ NormalizingSumsPositive

\* C16, amended: under update_belief calls with difficulties in [0, 1]
\* every likelihood value lies in [0.25, 0.95], every belief entry is a
\* number that is not negative and at least one entry is positive, and
\* the normalizing sums of update_belief and of both branches of
\* calculate_eig are strictly positive.
C16_NormalizingSumsPositive ==
  /\ LikelihoodInRange
  /\ \A i \in DOMAIN belief : NonNegative(belief[i])
  /\ \E i \in DOMAIN belief : Positive(belief[i])
  /\ NormalizingSumsPositive

\* calculate_eig has returned a number on a belief with an entry that
\* has underflowed to zero.
C16_Witness ==
  /\ call.op = "calculate_eig"
  /\ \E i \in DOMAIN belief : belief[i] = Zero
  /\ Positive(EigSumCorrect) /\ Positive(EigSumWrong)
  /\ ~IsNaN(call.ret)

\* The user records of users.json in the files fs.
Users(fs) == _load_users(fs).entries

\* The profile stored for username in the files fs, or None.
StoredProfile(fs, username) ==
  IF profile_file(username) \in DOMAIN fs THEN fs[profile_file(username)]
  ELSE None

\* C18 as stated: get_user_profile(username) returns the stored profile
\* data of that user, or None if no profile is found for that username.
C18_StoredProfileOrNone ==
  call.op = "get_user_profile" =>
    /\ call.exc = "none"
    /\ call.ret = StoredProfile(call.files_before, call.username)

\* The register_user call that has returned (True, message).
Registered ==
  /\ call.op = "register_user"
  /\ call.exc = "none"
  /\ call.ret[1]

\* The call of UserManager that has returned has kept every user record's
\* password hash.
HashesKept ==
  \A u \in DOMAIN Users(call.files_before) :
    /\ u \in DOMAIN Users(files)
    /\ Users(files)[u].password_hash
         = Users(call.files_before)[u].password_hash

\* C19 as stated: register_user succeeds only if the username is not yet
\* registered, has at least 3 characters after stripping and the password
\* has at least 6 characters; a rejected registration returns
\* (False, message) and leaves the user database and all profiles
\* unchanged; and no call removes or overwrites the password hash of a
\* registered user, so that at most one registration per username
\* succeeds.
C19_UsernamesUnique ==
  /\ Registered =>
       /\ call.username \notin DOMAIN Users(call.files_before)
       /\ Len(strip(call.username)) >= 3
       /\ Len(call.password) >= 6
  /\ (call.op = "register_user" /\ ~Registered) =>
       /\ call.exc = "none"
       /\ files = call.files_before
  /\ call.op \in {"register_user", "authenticate_user", "get_user_profile"}
       => HashesKept

\* The authenticate_user call that has returned (True, message).
Authenticated ==
  /\ call.op = "authenticate_user"
  /\ call.exc = "none"
  /\ call.ret[1]

\* The user database holds a record for the call's username, and the
\* password of the call is the one its hash was made of.
PasswordMatches ==
  /\ call.username \in DOMAIN Users(call.files_before)
  /\ Users(call.files_before)[call.username].password_hash.sha256
       = call.password

\* C20: authenticate_user(username, password) returns success exactly
\* when the username is registered and the hash of the password equals
\* the stored hash; a successful call increases that user's login_count
\* by exactly 1 and changes no other user's record and no other file; a
\* failed call leaves every file unchanged.
C20_Authentication ==
  call.op = "authenticate_user" =>
    /\ call.exc = "none"
    /\ call.ret[1] <=> PasswordMatches
    /\ call.ret[1] =>
         /\ Users(files)[call.username].login_count
              = Users(call.files_before)[call.username].login_count + 1
         /\ Users(files)[call.username].password_hash
              = Users(call.files_before)[call.username].password_hash
         /\ DOMAIN Users(files) = DOMAIN Users(call.files_before)
         /\ \A u \in DOMAIN Users(files) \ {call.username} :
              Users(files)[u] = Users(call.files_before)[u]
         /\ DOMAIN files = DOMAIN call.files_before
         /\ \A f \in DOMAIN files \ {users_file} :
              files[f] = call.files_before[f]
    /\ ~call.ret[1] => files = call.files_before

\* A user has logged in while another user is registered, too.
C20_Witness ==
  /\ Authenticated
  /\ DOMAIN Users(files) = {Ann, Bob}
  /\ Users(files)[call.username].login_count = 1

----------------------------------------------------------------------------
(* C17 *)

\* The learner and the history list that the entry of a user id refers to.
LearnerOf(ud, objs, user_id) == objs[ud[user_id].learner]
HistoryOf(ud, objs, user_id) == objs[ud[user_id].history]

\* No two entries of user_data refer to the same learner or the same
\* history list, and no learner is a history list.
OwnObjects ==
  /\ \A u \in DOMAIN user_data :
       /\ {user_data[u].learner, user_data[u].history} \subseteq DOMAIN objects
       /\ user_data[u].learner # user_data[u].history
  /\ \A u, v \in DOMAIN user_data :
       u # v =>
         {user_data[u].learner, user_data[u].history}
           \cap {user_data[v].learner, user_data[v].history} = {}

\* After Submit Answer as one user id, the learner and the history of
\* every other user id are those from before the answer.
OthersUnchanged ==
  call.op = "submit" =>
    \A v \in DOMAIN call.user_data_before \ {call.user_id} :
      /\ v \in DOMAIN user_data
      /\ LearnerOf(user_data, objects, v)
           = LearnerOf(call.user_data_before, call.objects_before, v)
      /\ HistoryOf(user_data, objects, v)
           = HistoryOf(call.user_data_before, call.objects_before, v)

\* After Submit Answer as one user id, the learner of that user id has a
\* new belief and its history is one id longer.
OwnChanged ==
  call.op = "submit" =>
    /\ LearnerOf(user_data, objects, call.user_id).belief
         # LearnerOf(call.user_data_before, call.objects_before,
                     call.user_id).belief
    /\ Len(HistoryOf(user_data, objects, call.user_id))
         = 1 + Len(HistoryOf(call.user_data_before, call.objects_before,
                             call.user_id))

\* C17: every user id of the application has its own learner and its own
\* history list, and an answer submitted as one user id changes the
\* belief and the history of that user id and of no other.
C17_NoSharedLearner == OwnObjects /\ OthersUnchanged /\ OwnChanged

\* An answer was submitted as one user id while another user id had
\* answered a question before.
C17_Witness ==
  /\ call.op = "submit"
  /\ \E v \in DOMAIN user_data \ {call.user_id} :
       /\ Len(HistoryOf(user_data, objects, v)) > 0
       /\ LearnerOf(user_data, objects, v).belief # NewLearner(GridSize).belief

----------------------------------------------------------------------------
(* C21 *)

\* C21: after Start New Session and the run of main_app that follows it,
\* the user id has a learner with the uniform belief of a new learner and
\* an empty history, and a question is presented, not the finished
\* screen.
C21_ResetGivesFreshLearner ==
  call.op = "start_new_session" =>
    /\ call.user_id \in DOMAIN user_data
    /\ LearnerOf(user_data, objects, call.user_id).belief
         = NewLearner(GridSize).belief
    /\ HistoryOf(user_data, objects, call.user_id) = <<>>
    /\ user_data[call.user_id].current_q_id.kind = "id"

----------------------------------------------------------------------------
(* C22 *)

NoDuplicate(list) ==
  \A j, k \in 1..Len(list) : j # k => list[j] # list[k]

\* No history holds an id twice.
NoDuplicateHistory ==
  \A u \in DOMAIN user_data : NoDuplicate(HistoryOf(user_data, objects, u))

\* The question presented for answering is not in the history.
PresentedUnanswered ==
  \A u \in DOMAIN user_data :
    (user_data[u].current_q_id.kind = "id" /\ ~user_data[u].waiting_next)
      => ~Contains(HistoryOf(user_data, objects, u),
                   user_data[u].current_q_id.id)

\* The answer that the last row of the log records.
LastAnswer == observations[Len(observations)]

\* Submit Answer was processed while waiting_next was false; it made one
\* update_belief with the answer, appended the id of the current question
\* to the history, set waiting_next and kept the current question.
SubmitProcessedOnce ==
  call.op = "submit" =>
    /\ ~call.user_data_before[call.user_id].waiting_next
    /\ user_data[call.user_id].waiting_next
    /\ user_data[call.user_id].current_q_id
         = call.user_data_before[call.user_id].current_q_id
    /\ HistoryOf(user_data, objects, call.user_id)
         = Append(HistoryOf(call.user_data_before, call.objects_before,
                            call.user_id),
                  user_data[call.user_id].current_q_id.id)
    /\ LastAnswer.question_id = user_data[call.user_id].current_q_id.id
    /\ LearnerOf(user_data, objects, call.user_id).belief
         = update_belief(
             LearnerOf(call.user_data_before, call.objects_before,
                       call.user_id).ability_grid,
             LearnerOf(call.user_data_before, call.objects_before,
                       call.user_id).belief,
             ParseFloat(LastAnswer.difficulty), LastAnswer.correct).belief

\* Next Question was pressed while waiting_next was true; it cleared
\* waiting_next and left the learner and the history as they were.
NextClearsWaiting ==
  call.op = "next_question" =>
    /\ call.user_data_before[call.user_id].waiting_next
    /\ ~user_data[call.user_id].waiting_next
    /\ objects = call.objects_before

\* A run of main_app without a button leaves waiting_next, the learner
\* and the history of every entry that was there as they were.
RunKeepsWaiting ==
  call.op = "main_app" =>
    \A u \in DOMAIN call.user_data_before :
      /\ user_data[u].waiting_next = call.user_data_before[u].waiting_next
      /\ LearnerOf(user_data, objects, u)
           = LearnerOf(call.user_data_before, call.objects_before, u)
      /\ HistoryOf(user_data, objects, u)
           = HistoryOf(call.user_data_before, call.objects_before, u)

\* C22: an answer is processed only while waiting_next is false, with one
\* update_belief and one id appended to the history; only Next Question
\* clears waiting_next; no history holds an id twice and the question
\* presented for answering is not in the history.
C22_AnsweringFlow ==
  /\ NoDuplicateHistory
  /\ PresentedUnanswered
  /\ SubmitProcessedOnce
  /\ NextClearsWaiting
  /\ RunKeepsWaiting

\* Next Question has presented a second question after an answer.
C22_Witness ==
  /\ call.op = "next_question"
  /\ user_data[call.user_id].current_q_id.kind = "id"
  /\ Len(HistoryOf(user_data, objects, call.user_id)) = 1

----------------------------------------------------------------------------
(* C23 *)

\* The ids of the rows of a pool, and those not in the history.
PoolIds(question_pool) ==
  {question_pool.rows[i].id : i \in 1..Len(question_pool.rows)}
UnansweredIds(question_pool, history) ==
  {id \in PoolIds(question_pool) : ~Contains(history, id)}

\* C23: get_next_question sets current_q_id to "FINISHED" exactly when
\* every id of the pool is in the history and otherwise to the id of an
\* unanswered question, in Linear mode to the smallest such id.
C23_NextQuestion ==
  call.op = "get_next_question" =>
    IF UnansweredIds(call.question_pool, call.history) = {}
    THEN call.current_q_id = Finished
    ELSE /\ call.current_q_id.kind = "id"
         /\ call.current_q_id.id
              \in UnansweredIds(call.question_pool, call.history)
         /\ call.learning_mode = "Linear (Control Group)" =>
              \A id \in UnansweredIds(call.question_pool, call.history) :
                call.current_q_id.id <= id

\* The same for the pools that have the column id.
NextQuestionOfFrame ==
  (call.op = "get_next_question" /\ "id" \in call.question_pool.columns)
    => C23_NextQuestion

----------------------------------------------------------------------------
(* C24 *)

\* simulate_learning has been called on the student.
Called == IF student = None THEN FALSE ELSE student.pc # "new"
Returned == IF student = None THEN FALSE ELSE student.pc = "done"
InLoop == IF student = None THEN FALSE ELSE student.pc = "loop"

\* The limit the caller gave: max_questions, CONFIG's when it gave none.
GivenLimit ==
  IF student.max_questions_given = None THEN CONFIG_max_questions
  ELSE student.max_questions_given.int

PoolExhausted ==
  unanswered_rows(student.question_df.rows, student.history) = <<>>

\* The run answers at most limit questions, no id twice and only ids of
\* the pool; it goes on only while it has neither answered limit questions
\* nor converged, and it ends only with the pool exhausted, convergence
\* detected or limit questions answered.
BoundedBy(limit) ==
  /\ Len(student.history) <= limit
  /\ NoDuplicate(student.history)
  /\ \A k \in 1..Len(student.history) :
       student.history[k] \in PoolIds(student.question_df)
  /\ InLoop => (Len(student.history) < limit /\ ~student.converged)
  /\ ~InLoop =>
       \/ PoolExhausted
       \/ student.converged
       \/ Len(student.history) = limit

\* C24: simulate_learning answers at most max_questions questions and at
\* most one per question of the pool, and stops at the first of pool
\* exhaustion, detected convergence and max_questions answered questions.
C24_AtMostMaxQuestions == Called => BoundedBy(GivenLimit)

\* The same with the limit that the code computes from the argument.
BoundedByLimitUsed == Called => BoundedBy(student.max_questions)

\* Every step taken in the loop leaves the loop or answers one more
\* question and counts it, so the loop is left after at most as many
\* steps as the pool has questions.
LoopAdvances ==
  [][InLoop =>
       \/ student'.pc # "loop"
       \/ /\ student'.step = student.step + 1
          /\ student'.step <= student.max_questions
          /\ Len(student'.history) = Len(student.history) + 1]_vars

----------------------------------------------------------------------------
(* C25 *)

\* simulate_learning has returned from a run with the simple check.
ReturnedSimple == Returned /\ ~student.use_stability_check

\* The threshold the caller gave, CONFIG's when it gave none.
GivenThreshold ==
  IF student.convergence_threshold_given = None
  THEN CONFIG_convergence_threshold
  ELSE student.convergence_threshold_given

\* The estimate recorded after step k (the first entry is the prior one)
\* is within the threshold of true_ability.
WithinAt(k, threshold) ==
  FLt(error_of(student.estimated_abilities[k + 1], student.true_ability),
      threshold)

\* converged is true exactly when the last step's estimate is within the
\* threshold; then convergence_step is that step, the first such one and
\* the last one answered; otherwise convergence_step is len(history);
\* final_error is the error of the last estimate in both cases.
ConvergenceRecorded(threshold) ==
  /\ Len(student.estimated_abilities) = Len(student.history) + 1
  /\ student.converged
       <=> (Len(student.history) >= 1
            /\ WithinAt(Len(student.history), threshold))
  /\ student.converged =>
       \A k \in 1..(Len(student.history) - 1) : ~WithinAt(k, threshold)
  /\ student.convergence_step = IntArg(Len(student.history))
  /\ student.final_error
       = error_of(student.estimated_abilities[Len(student.history) + 1],
                  student.true_ability)

\* C25: with the simple check, converged is true exactly when the run
\* stopped at a step whose estimate is within the threshold of
\* true_ability, convergence_step is then that step, the first such one,
\* equal to len(history); the prior estimate never declares convergence;
\* without convergence, convergence_step is len(history) and final_error
\* the error of the last estimate.
C25_ConvergenceRecorded == ReturnedSimple => ConvergenceRecorded(GivenThreshold)

\* The same with the threshold that the code computes from the argument.
ConvergenceRecordedAsUsed ==
  ReturnedSimple => ConvergenceRecorded(student.convergence_threshold)

----------------------------------------------------------------------------
(* C26 *)

NotebookUsers == {c[1] : c \in NotebookCalls}

\* No wrong_questions_detail holds two records of one question.
OneRecordPerQuestion ==
  \A u \in NotebookUsers :
    \A j, k \in 1..Len(stored_detail(files, u)) :
      j # k => stored_detail(files, u)[j].question_id
                 # stored_detail(files, u)[k].question_id

\* The lists of the call's user before and after the call.
DetailBefore == stored_detail(call.files_before, call.username)
DetailAfter == stored_detail(files, call.username)

\* The records of the other questions, in their order.
OtherRecords(wrong_questions) ==
  without_question(wrong_questions, call.question_id)

\* After add_wrong_question: a question without a record has a new one
\* with wrong_count 1, mastered false and review_count 0; a question with
\* a record has its wrong_count increased by 1 (and nothing else but the
\* time of the last wrong answer changed); no other record and no other
\* user's file is changed.
AddCounted ==
  call.op = "add_wrong_question" =>
    /\ call.exc = "none"
    /\ OtherRecords(DetailAfter) = OtherRecords(DetailBefore)
    /\ Len(DetailAfter) = Len(OtherRecords(DetailBefore)) + 1
    /\ \A u \in NotebookUsers \ {call.username} :
         stored_detail(files, u) = stored_detail(call.files_before, u)
    /\ IF record_of(DetailBefore, call.question_id) = None
       THEN /\ record_of(DetailAfter, call.question_id).wrong_count = 1
            /\ ~record_of(DetailAfter, call.question_id).mastered
            /\ record_of(DetailAfter, call.question_id).review_count = 0
       ELSE record_of(DetailAfter, call.question_id)
              = [record_of(DetailBefore, call.question_id)
                   EXCEPT !.wrong_count = @ + 1, !.last_wrong_time = Now]

\* C26: wrong_questions_detail holds at most one record per question id
\* over all calls of the four methods; the first add of an id makes a
\* record with wrong_count 1, mastered false and review_count 0, and a
\* later add increases its wrong_count by 1 and changes no other record.
C26_OneRecordPerQuestion == OneRecordPerQuestion /\ AddCounted

\* A second wrong answer was added to a mastered, reviewed record while
\* the user has a record of another question.
C26_Witness ==
  /\ call.op = "add_wrong_question"
  /\ record_of(DetailBefore, call.question_id) # None
  /\ record_of(DetailAfter, call.question_id).mastered
  /\ record_of(DetailAfter, call.question_id).review_count = 1
  /\ record_of(DetailAfter, call.question_id).wrong_count = 2
  /\ Len(DetailAfter) = 2

----------------------------------------------------------------------------
(* C27 *)

\* The number of correct answers at the end of the history, after the
\* last wrong one.
CorrectSinceLastWrong(learning_history) ==
  Cardinality({k \in 1..Len(learning_history) :
                 \A j \in k..Len(learning_history) :
                   learning_history[j].is_correct})

StatsNow == stored_profile(files, StatsUser)
StatsBefore == stored_profile(call.files_before, StatsUser)

\* C27: after any calls of update_learning_stats on a new profile,
\* total_questions = correct_answers + wrong_answers = the length of
\* learning_history, current_streak is the number of correct answers since
\* the last wrong one, best_streak >= current_streak, a call never lowers
\* best_streak, and wrong_questions holds no id twice.
C27_StatsConsistent ==
  /\ StatsNow.learning_stats.total_questions
       = StatsNow.learning_stats.correct_answers
           + StatsNow.learning_stats.wrong_answers
  /\ StatsNow.learning_stats.total_questions
       = Len(StatsNow.learning_history)
  /\ StatsNow.learning_stats.current_streak
       = CorrectSinceLastWrong(StatsNow.learning_history)
  /\ StatsNow.learning_stats.best_streak
       >= StatsNow.learning_stats.current_streak
  /\ NoDuplicate(StatsNow.wrong_questions)
  /\ call.op = "update_learning_stats" =>
       /\ call.exc = "none"
       /\ StatsNow.learning_stats.best_streak
            >= StatsBefore.learning_stats.best_streak
       /\ Len(StatsNow.learning_history)
            = Len(StatsBefore.learning_history) + 1

\* Two correct answers, then the same question answered wrongly twice.
C27_Witness ==
  /\ call.op = "update_learning_stats"
  /\ ~call.is_correct
  /\ StatsNow.learning_stats.total_questions = 4
  /\ StatsNow.learning_stats.wrong_answers = 2
  /\ StatsNow.learning_stats.best_streak = 2
  /\ StatsNow.learning_stats.current_streak = 0
  /\ Len(StatsNow.wrong_questions) = 1

====
